---- MODULE Spec2Model ----
(***************************************************************************)
(* Verification model of the taproot-workshop notebooks:                   *)
(*   2.1 segwit v1 outputs and MuSig key-path spends,                      *)
(*   2.2 key tweaking and tweaked MuSig,                                   *)
(*   2.5 the Huffman TapTree constructor,                                  *)
(*   3.1 the degrading multisig case study.                                *)
(*                                                                         *)
(* The notebooks call the test_framework library (key.py, musig.py,        *)
(* script.py).  The library is modelled over a small curve of the same     *)
(* shape as secp256k1:  y^2 = x^3 + 7  over F_13, whose group has prime    *)
(* order 7.  Hash values are modelled as the byte string  tag || message   *)
(* itself (so two different inputs never collide), and their conversion    *)
(* to a scalar by a small mixing function.                                 *)
(***************************************************************************)
EXTENDS Integers, Sequences, FiniteSets, TLC

(***************************************************************************)
(* Bounds of the model                                                     *)
(***************************************************************************)
\* number of different 32-byte messages / sighashes a flow may sign
MaxMsg == 2
\* number of different TapTree roots the 3.1 output may commit to
MaxRoot == 3
\* number of different contracts a key may be tweaked with
MaxContract == 6
\* largest number of leaves of a TapTree
MaxLeaves == 4
\* largest frequency assigned to a leaf
MaxWeight == 3
\* largest number of MuSig sessions run one after another
MaxSessions == 2
\* the largest factor the leaf weights are multiplied by
MaxScale == 3

(***************************************************************************)
(* Group arithmetic (test_framework/key.py)                                *)
(***************************************************************************)
SECP256K1_FIELD_SIZE == 13
SECP256K1_ORDER == 7
\* the number of values a 32-byte string can take (2^256 in the library)
HashSpace == 8

\* the point at infinity (the library's None)
INFINITY == <<>>
\* the generator point
SECP256K1_G == <<7, 8>>

FieldInv(a) == CHOOSE i \in 1..(SECP256K1_FIELD_SIZE - 1) : (i * a) % SECP256K1_FIELD_SIZE = 1

FieldSub(a, b) == (a + SECP256K1_FIELD_SIZE - (b % SECP256K1_FIELD_SIZE)) % SECP256K1_FIELD_SIZE

\* ECPubKey.negate / SECP256K1.negate
PointNegate(P) ==
    IF P = INFINITY THEN INFINITY
    ELSE <<P[1], (SECP256K1_FIELD_SIZE - P[2]) % SECP256K1_FIELD_SIZE>>

\* SECP256K1.add / SECP256K1.double in affine coordinates
PointAdd(P, Q) ==
    IF P = INFINITY THEN Q
    ELSE IF Q = INFINITY THEN P
    ELSE IF P[1] = Q[1] /\ (P[2] + Q[2]) % SECP256K1_FIELD_SIZE = 0 THEN INFINITY
    ELSE LET lam == IF P = Q
                    THEN (3 * P[1] * P[1] * FieldInv((2 * P[2]) % SECP256K1_FIELD_SIZE)) % SECP256K1_FIELD_SIZE
                    ELSE (FieldSub(Q[2], P[2]) * FieldInv(FieldSub(Q[1], P[1]))) % SECP256K1_FIELD_SIZE
             x3  == FieldSub(FieldSub(lam * lam, P[1]), Q[1])
             y3  == FieldSub(lam * FieldSub(P[1], x3), P[2])
         IN  <<x3, y3>>

\* SECP256K1.mul: k times P
RECURSIVE PointMul(_, _)
PointMul(P, k) ==
    IF k = 0 THEN INFINITY
    ELSE IF k % 2 = 1 THEN PointAdd(P, PointMul(P, k - 1))
    ELSE LET H == PointMul(P, k \div 2) IN PointAdd(H, H)

\* SECP256K1.has_even_y / ECPubKey.get_y() % 2 == 0
has_even_y(P) == P[2] % 2 = 0

\* ECPubKey.get_bytes(): the 32-byte x-only encoding
get_bytes(P) == <<P[1]>>

\* ECPubKey.is_valid: a point other than the identity
ValidPoint(P) == P # INFINITY

\* ECKey.valid: a scalar in [1, n)
ValidScalar(x) == x \in 1..(SECP256K1_ORDER - 1)

\* ECKey.negate
ScalarNegate(x) == (SECP256K1_ORDER - x) % SECP256K1_ORDER

\* ECKey.get_pubkey
get_pubkey(x) == PointMul(SECP256K1_G, x)

\* ECKey.__add__ / ECKey.add
ScalarAdd(a, b) == (a + b) % SECP256K1_ORDER

\* ECKey.__mul__ / ECKey.mul
ScalarMul(a, b) == (a * b) % SECP256K1_ORDER

\* ECKey(): a key that has not been set; it is not valid and has no secret
ECKey == [valid |-> FALSE]

\* ECKey().set(secret): the key takes the secret when it is a scalar in [1, n); zero and
\* values from n on are invalid and leave the key without a secret
ECKeySet(secret) ==
    IF ValidScalar(secret) THEN [valid |-> TRUE, secret |-> secret] ELSE ECKey

\* ECKey.__add__: a new key set to the sum of the secrets mod n
ECKeyAdd(x, y) ==
    IF x.valid /\ y.valid THEN ECKeySet(ScalarAdd(x.secret, y.secret)) ELSE ECKey

\* ECKey.__mul__: a new key set to the product of the secrets mod n
ECKeyMul(x, y) ==
    IF x.valid /\ y.valid THEN ECKeySet(ScalarMul(x.secret, y.secret)) ELSE ECKey

\* ECKey.__sub__: a new key set to the difference of the secrets mod n
ECKeySub(x, y) ==
    IF x.valid /\ y.valid
    THEN ECKeySet(ScalarAdd(x.secret, ScalarNegate(y.secret)))
    ELSE ECKey

\* ECPubKey.tweak_add: P + t*G
tweak_add(P, t) == PointAdd(P, PointMul(SECP256K1_G, t))

(***************************************************************************)
(* Hashing (test_framework/script.py, messages.py)                         *)
(***************************************************************************)
TagCode(tag) ==
    CASE tag = "sha256"            -> 0
      [] tag = "BIP0340/challenge" -> 1
      [] tag = "BIP0340/nonce"     -> 2
      [] tag = "TapTweak"          -> 3
      [] tag = "TapLeaf"           -> 4
      [] tag = "TapBranch"         -> 6
      [] tag = "TapSighash"        -> 7

\* tagged_hash(tag, msg): the digest stands for its own preimage
tagged_hash(tag, data) == <<TagCode(tag)>> \o data

sha256(data) == tagged_hash("sha256", data)

RECURSIVE Mix(_, _)
Mix(h, data) ==
    IF data = <<>> THEN h
    ELSE Mix((h * 31 + Head(data) * 7 + 11) % 251, Tail(data))

\* int.from_bytes(h, 'big') of a 32-byte digest
int_from_bytes(h) == Mix(5, h) % HashSpace

(***************************************************************************)
(* Sequence helpers                                                        *)
(***************************************************************************)
RECURSIVE SumScalars(_)
SumScalars(seq) == IF seq = <<>> THEN 0 ELSE Head(seq) + SumScalars(Tail(seq))

\* Python's sum() over ECPubKey.__add__
RECURSIVE SumPoints(_)
SumPoints(seq) == IF seq = <<>> THEN INFINITY ELSE PointAdd(Head(seq), SumPoints(Tail(seq)))

RECURSIVE Insert(_, _)
Insert(v, seq) ==
    IF seq = <<>> THEN <<v>>
    ELSE IF v <= Head(seq) THEN <<v>> \o seq
    ELSE <<Head(seq)>> \o Insert(v, Tail(seq))

\* Python's sorted() on integers
RECURSIVE sorted(_)
sorted(seq) == IF seq = <<>> THEN <<>> ELSE Insert(Head(seq), sorted(Tail(seq)))

(***************************************************************************)
(* Single-signer Schnorr (test_framework/key.py)                           *)
(***************************************************************************)
\* the BIP340 challenge e = int(tagged_hash("BIP0340/challenge", R || P || m)) mod n
bip340_challenge(r, P, m) ==
    int_from_bytes(tagged_hash("BIP0340/challenge", <<r>> \o get_bytes(P) \o m))
        % SECP256K1_ORDER

\* musig_digest(R_musig, P_musig, msg)
musig_digest(R, P, m) == bip340_challenge(R[1], P, m)

\* the point with x-coordinate x and even y (what a 32-byte x-only key stands for)
lift_x(x) ==
    LET ys == {y \in 0..(SECP256K1_FIELD_SIZE - 1) :
                 /\ (y * y) % SECP256K1_FIELD_SIZE = (x * x * x + 7) % SECP256K1_FIELD_SIZE
                 /\ y % 2 = 0}
    IN  IF ys = {} THEN INFINITY ELSE <<x, CHOOSE y \in ys : TRUE>>

\* ECPubKey.verify_schnorr(sig, msg), sig = <<r, s>>
verify_schnorr(P, sig, m) ==
    /\ ValidPoint(P)
    /\ sig[1] < SECP256K1_FIELD_SIZE
    /\ sig[2] < SECP256K1_ORDER
    /\ LET e == bip340_challenge(sig[1], P, m)
           R == PointAdd(PointMul(SECP256K1_G, sig[2]), PointMul(P, SECP256K1_ORDER - e))
       IN  /\ R # INFINITY
           /\ has_even_y(R)
           /\ R[1] = sig[1]

\* the deterministic nonce of ECKey.sign_schnorr
schnorr_nonce(x, m) ==
    int_from_bytes(tagged_hash("BIP0340/nonce", <<x>> \o m)) % SECP256K1_ORDER

\* ECKey.sign_schnorr(msg): <<r, s>>, or <<>> when the key or the nonce is invalid
sign_schnorr(x, m) ==
    LET kp == schnorr_nonce(x, m)
        R  == PointMul(SECP256K1_G, kp)
        k  == IF kp # 0 /\ has_even_y(R) THEN kp ELSE ScalarNegate(kp)
        e  == musig_digest(R, get_pubkey(x), m)
    IN  IF ~ValidScalar(x) \/ kp = 0 THEN <<>>
        ELSE <<R[1], (k + e * x) % SECP256K1_ORDER>>

(***************************************************************************)
(* MuSig (test_framework/musig.py)                                         *)
(***************************************************************************)
\* an L that hashes the public keys in the order they are listed in
musig_L_asGiven(pubkey_list) ==
    sha256([i \in 1..Len(pubkey_list) |-> pubkey_list[i][1]])

\* L = sha256 of the sorted, serialized public keys
musig_L(pubkey_list) ==
    sha256(sorted([i \in 1..Len(pubkey_list) |-> pubkey_list[i][1]]))

\* the challenge factor of key P in the key list
musig_c(pubkey_list, P) == int_from_bytes(sha256(musig_L(pubkey_list) \o get_bytes(P)))

\* generate_musig_key(pubkey_list): the challenge factors and the aggregate key
generate_musig_key(pubkey_list) ==
    LET c == [i \in 1..Len(pubkey_list) |-> musig_c(pubkey_list, pubkey_list[i])]
    IN  [c_map |-> c,
         agg   |-> SumPoints([i \in 1..Len(pubkey_list) |-> PointMul(pubkey_list[i], c[i])])]

\* aggregate_schnorr_nonces(nonce_point_list): (R_agg, negated)
aggregate_schnorr_nonces(nonce_point_list) ==
    LET R == SumPoints(nonce_point_list)
    IN  IF R # INFINITY /\ ~has_even_y(R)
        THEN [R_agg |-> PointNegate(R), negated |-> TRUE]
        ELSE [R_agg |-> R, negated |-> FALSE]

\* sign_musig(priv_key, k_key, R_musig, P_musig, msg): the partial signature s_i
sign_musig(priv_key, k_key, R_musig, P_musig, m) ==
    (k_key + musig_digest(R_musig, P_musig, m) * priv_key) % SECP256K1_ORDER

\* aggregate_musig_signatures(s_list, R_musig): <<R.x, sum of s_i mod n>>
aggregate_musig_signatures(s_list, R_musig) ==
    <<R_musig[1], SumScalars(s_list) % SECP256K1_ORDER>>

(***************************************************************************)
(* State                                                                   *)
(***************************************************************************)
VARIABLES
    \* --- MuSig signing session (2.1.11-2.1.14, 2.2.2, 3.1.2-3.1.4) ---
    flow,               \* the notebook flow the session runs: "2.1", "2.2" or "3.1"
    pc,                 \* the state of the session
    err,                \* why the session stopped: "none", "domain", "NameError"
    privkey,            \* privkey1.., main_privkeyA..: the signers' secrets
    pubkey,             \* pubkey1.., main_pubkeyA..: the signers' public keys
    c_map,              \* the challenge factor of each signer's key
    privkey_c,          \* privkey1_c.., main_privkeyA_c..: challenge-scaled secrets
    pubkey_c,           \* pubkey1_c.., main_pubkeyA_c..: challenge-scaled public keys
    agg_pubkey,         \* agg_pubkey, musig_ABC
    tweak,              \* tweak (2.2.2), taptweak (3.1.3)
    agg_pubkey_tweaked, \* agg_pubkey_tweaked (2.2.2), output_pubkey = output_keyPath (3.1)
    tweak_keyPath,      \* tweak_keyPath (3.1.4)
    nonce,              \* nonce1.., k1.., nonceA..: the nonce scalars
    R_agg,              \* the aggregate nonce point
    negated,            \* the flag returned by aggregate_schnorr_nonces
    msg,                \* the 32-byte message / sighash that is signed
    s,                  \* s1.., sA..: the partial signatures
    sig_agg,            \* the aggregate signature <<R.x, s>>
    verified,           \* the boolean result of verifying sig_agg
    tampered,           \* a partial signature was replaced before aggregation
    \* --- key tweaking examples (2.2.1, 2.2.3, 2.2.4) ---
    example,            \* the example that runs: "2.2.1" or "2.2.3"
    step,               \* how far the example has run
    x_key,              \* privkey (2.2.1), x_key (2.2.3): the private key
    P_key,              \* pubkey (2.2.1), P_key (2.2.3): its public key
    contract,           \* the committed contract (2.2.3), as a byte string
    t_int,              \* tweak (2.2.1), int.from_bytes(t) (2.2.3): the tweak scalar
    q_key,              \* privkey_tweaked (2.2.1), q_key (2.2.3)
    Q_key,              \* pubkey_tweaked (2.2.1), Q_key (2.2.3)
    sig,                \* the signature made with the tweaked private key
    verify_sig,         \* the result of verifying sig against the tweaked public key
    verify_tweak,       \* the result of Bob's check P.tweak_add(t) == Q
    alternative_contract, \* the modified contract of 2.2.4
    t2_int,             \* int.from_bytes(t2) of 2.2.4
    x2_key,             \* the modified private key of 2.2.4
    P2_key,             \* the modified public key of 2.2.4
    \* --- Huffman TapTree constructor (2.5) ---
    tuple_list,         \* the (frequency, tapleaf) list handed to huffman_constructor
    tuple_list2,        \* the same pairs in the order of the second construction
    build,              \* which construction runs: 1 (taptree) or 2 (taptree2)
    hstep,              \* how far the construction has run
    queue,              \* the queue of (frequency, node) entries
    merges,             \* how many rounds the loop of the running construction has made
    taptree,            \* what taptree.construct() returned
    taptree2,           \* what taptree2.construct() returned
    \* --- the TapTree assembled by hand (Example 2.5.1) ---
    child_order,        \* for each of the four Tapbranch calls: are its children exchanged
    taptree_manual,     \* what construct() returned for the tree assembled by hand
    \* --- the nonces of the MuSig sessions run so far ---
    session,            \* the number of the MuSig session that runs
    generated,          \* how many nonces generate_schnorr_nonce() has returned
    nonce_of,           \* for each signer: which of these nonces is bound to its name
    sign_log,           \* the sign_musig calls so far: session, nonce, message
    \* --- the signature digests of the spending transaction (3.1.4-3.1.6) ---
    spending_tx,        \* the transaction that spends the taproot output
    sighash_musig,      \* its key-path digest, <<>> before it is computed
    sighash,            \* its script-path digests, by the tapscript's place in backup_tapscripts
    \* --- the timelock tests of the script-path spends (3.1.5, 3.1.6) ---
    confirmations,      \* the confirmations of the funding output, 0 while it is unconfirmed
    timelock_test,      \* which delay is tested: "none", "short" or "long"
    cell,               \* how far the cells of the test have run
    to_mine,            \* the blocks the running generate() call has still to mine
    mempool_log,        \* the testmempoolaccept results the cells looked at
    \* --- the scalar operations of 0.2.1-0.2.4 ---
    scalar_cell,        \* the cell that ran last: "none", "0.2.1", "0.2.2", "0.2.3", "0.2.4"
    a_key,              \* a_key, the ECKey set to the cell's random a
    b_key,              \* b_key
    c_key,              \* c_key, set by 0.2.4 only
    left,               \* ab, left_a_plus_b, left_a_times_b, left: the results computed as ints
    right               \* ab_key, right_b_plus_a, right_b_times_a, right: the results as ECKeys

musigVars == <<flow, pc, err, privkey, pubkey, c_map, privkey_c, pubkey_c, agg_pubkey,
               tweak, agg_pubkey_tweaked, tweak_keyPath, nonce, R_agg, negated, msg, s,
               sig_agg, verified, tampered>>

tweakVars == <<example, step, x_key, P_key, contract, t_int, q_key, Q_key, sig, verify_sig,
               verify_tweak, alternative_contract, t2_int, x2_key, P2_key>>

huffmanVars == <<tuple_list, tuple_list2, build, hstep, queue, merges, taptree, taptree2>>

manualVars == <<child_order, taptree_manual>>

ledgerVars == <<session, generated, nonce_of, sign_log>>

sighashVars == <<spending_tx, sighash_musig, sighash>>

chainVars == <<confirmations, timelock_test, cell, to_mine, mempool_log>>

scalarVars == <<scalar_cell, a_key, b_key, c_key, left, right>>

\* the state outside a MuSig session
besidesMuSig == <<tweakVars, huffmanVars, manualVars, sighashVars, chainVars,
                   scalarVars>>

\* the state outside the key tweaking examples
besidesTweak == <<musigVars, huffmanVars, manualVars, ledgerVars, sighashVars, chainVars,
                   scalarVars>>

\* the state outside the TapTree constructions
besidesHuffman == <<musigVars, tweakVars, manualVars, ledgerVars, sighashVars, chainVars,
                   scalarVars>>

\* the state outside the manual assembly of a TapTree
besidesManual == <<musigVars, tweakVars, huffmanVars, ledgerVars, sighashVars, chainVars,
                   scalarVars>>

\* the state outside the signature digests of the spending transaction
besidesSighash == <<musigVars, tweakVars, huffmanVars, manualVars, ledgerVars, chainVars,
                   scalarVars>>

\* the state outside the timelock tests, the spending transaction included
besidesChain == <<musigVars, tweakVars, huffmanVars, manualVars, ledgerVars,
                  sighash_musig, sighash, scalarVars>>

\* the state outside the scalar operations of 0.2
besidesScalar == <<musigVars, tweakVars, huffmanVars, manualVars, ledgerVars, sighashVars,
                   chainVars>>

vars == <<musigVars, tweakVars, huffmanVars, manualVars, ledgerVars, sighashVars, chainVars,
          scalarVars>>

(***************************************************************************)
(* The MuSig flows of the notebooks                                        *)
(***************************************************************************)
Flows == {"2.1", "2.2", "3.1"}

\* two signers in 2.1 and 2.2, main keys A, B, C in 3.1
NSigners(f) == IF f = "3.1" THEN 3 ELSE 2

Signers(f) == 1..NSigners(f)

Scalars == 1..(SECP256K1_ORDER - 1)

\* generate_key_pair() in 2.1.7 and 2.2.2, generate_bip340_key_pair() (even y) in 3.1.2
GeneratedSecrets(f) ==
    IF f = "3.1" THEN {x \in Scalars : has_even_y(get_pubkey(x))} ELSE Scalars

\* the messages that are signed, as byte strings
Msgs == {<<m>> : m \in 0..(MaxMsg - 1)}

\* the root hashes the TapTree of 3.1.3 may have
Roots == {<<r>> : r \in 1..MaxRoot}

\* privkey_i * c_map[pubkey_i]
ChallengeScaledPrivkeys(sk, c) == [i \in DOMAIN sk |-> ScalarMul(sk[i], c[i])]

\* pubkey_i * c_map[pubkey_i]; 3.1.2 multiplies main_pubkeyA for every signer
ChallengeScaledPubkeys(f, pk, c) ==
    [i \in DOMAIN pk |-> IF f = "3.1" THEN PointMul(pk[1], c[i]) ELSE PointMul(pk[i], c[i])]

\* agg_pubkey.negate() if its y is odd
AggKeyNegated(Q) == IF has_even_y(Q) THEN Q ELSE PointNegate(Q)

\* a negation that leaves out the last signer's private key
PrivkeysNegated_exceptLast(Q, sk) ==
    IF has_even_y(Q) THEN sk
    ELSE [i \in DOMAIN sk |-> IF i = Len(sk) THEN sk[i] ELSE ScalarNegate(sk[i])]

\* privkey_i_c.negate() for every signer if agg_pubkey has odd y
PrivkeysNegated(Q, sk) ==
    IF has_even_y(Q) THEN sk ELSE [i \in DOMAIN sk |-> ScalarNegate(sk[i])]

\* pubkey_i_c.negate() for every signer if agg_pubkey has odd y
PubkeysNegated(Q, pk) ==
    IF has_even_y(Q) THEN pk ELSE [i \in DOMAIN pk |-> PointNegate(pk[i])]

\* the tweak of the aggregate key: random in 2.2.2, the taptweak of the tree in 3.1.3
TweakChoices(f, Q) ==
    IF f = "2.2" THEN Scalars
    ELSE {int_from_bytes(tagged_hash("TapTweak", get_bytes(Q) \o r)) : r \in Roots}

\* 3.1.4: output_keyPath.negate() if the output key has odd y
KeyPathOutput(f, Qt) == IF f = "3.1" /\ ~has_even_y(Qt) THEN PointNegate(Qt) ELSE Qt

\* 3.1.4: privKeyX_keyPath.negate() if the output key has odd y
KeyPathPrivkeys(f, Qt, sk) ==
    IF f = "3.1" /\ ~has_even_y(Qt) THEN [i \in DOMAIN sk |-> ScalarNegate(sk[i])] ELSE sk

\* 3.1.4: tweak_keyPath = SECP256K1_ORDER - taptweak if the output key has odd y
KeyPathTweak(f, Qt, t) ==
    IF f = "3.1" /\ ~has_even_y(Qt) THEN SECP256K1_ORDER - t ELSE t

\* 2.1.14 negates "nounce1", a name that is not bound: the cell raises NameError
NonceNegationRaises(f, neg) == f = "2.1" /\ neg

\* if negated: k_i.negate() for every signer
NoncesNegated(neg, k) == IF neg THEN [i \in DOMAIN k |-> ScalarNegate(k[i])] ELSE k

\* the key the partial signatures are made for
SigningKey(f, Q, Qt) == IF f = "2.1" THEN Q ELSE Qt

\* a list with the tweak term e*t once per signer
PartialSignatureList_perSigner(f, sigs, e, t, tkp) ==
    IF f = "2.1" THEN sigs
    ELSE IF f = "2.2" THEN sigs \o [i \in DOMAIN sigs |-> e * t]
    ELSE sigs \o [i \in DOMAIN sigs |-> e * tkp]

\* the list handed to aggregate_musig_signatures
PartialSignatureList(f, sigs, e, t, tkp) ==
    IF f = "2.1" THEN sigs
    ELSE IF f = "2.2" THEN Append(sigs, e * t)
    ELSE Append(sigs, e * tkp)

\* a final check that looks at the nonce coordinate of the signature only
FinalVerification_nonceOnly(f, Q, Qt, sg, m) ==
    /\ Len(sg) = 2
    /\ sg[1] < SECP256K1_FIELD_SIZE

\* the final check: the node's mempool test in 2.1.14, verify_schnorr in 2.2.2 and 3.1.4
FinalVerification(f, Q, Qt, sg, m) ==
    IF f = "2.1" THEN verify_schnorr(lift_x(get_bytes(Q)[1]), sg, m)
    ELSE verify_schnorr(Qt, sg, m)

(***************************************************************************)
(* Actions of a MuSig session                                              *)
(***************************************************************************)
\* a domain error (invalid scalar, identity point) stops the session
DomainError ==
    /\ pc' = "Error"
    /\ err' = "domain"

\* 2.1.11, 2.2.2 (lines 147-161), 3.1.2: aggregate the keys, scale and negate
KeyAggregation ==
    /\ pc = "KeysCollected"
    /\ LET gen == generate_musig_key(pubkey)
           sk  == ChallengeScaledPrivkeys(privkey, gen.c_map)
           pk  == ChallengeScaledPubkeys(flow, pubkey, gen.c_map)
       IN  IF \/ ~ValidPoint(gen.agg)
              \/ \E i \in DOMAIN sk : ~ValidScalar(sk[i]) \/ ~ValidPoint(pk[i])
           THEN /\ DomainError
                /\ UNCHANGED <<c_map, agg_pubkey, privkey_c, pubkey_c>>
           ELSE /\ c_map' = gen.c_map
                /\ agg_pubkey' = AggKeyNegated(gen.agg)
                /\ privkey_c' = PrivkeysNegated(gen.agg, sk)
                /\ pubkey_c' = PubkeysNegated(gen.agg, pk)
                /\ pc' = "Aggregated"
                /\ err' = err
    /\ UNCHANGED <<flow, privkey, pubkey, tweak, agg_pubkey_tweaked, tweak_keyPath, nonce,
                   R_agg, negated, msg, s, sig_agg, verified, tampered>>
    /\ UNCHANGED besidesMuSig
    /\ UNCHANGED ledgerVars

\* 2.2.2 (lines 165-166), 3.1.3 (lines 228-230): tweak the aggregate key
TweakKey ==
    /\ pc = "Aggregated"
    /\ flow # "2.1"
    /\ \E t \in TweakChoices(flow, agg_pubkey) :
         /\ tweak' = t
         /\ IF ~ValidScalar(t) \/ ~ValidPoint(tweak_add(agg_pubkey, t))
            THEN /\ DomainError
                 /\ UNCHANGED agg_pubkey_tweaked
            ELSE /\ agg_pubkey_tweaked' = tweak_add(agg_pubkey, t)
                 /\ pc' = "Tweaked"
                 /\ err' = err
    /\ UNCHANGED <<flow, privkey, pubkey, c_map, privkey_c, pubkey_c, agg_pubkey,
                   tweak_keyPath, nonce, R_agg, negated, msg, s, sig_agg, verified, tampered>>
    /\ UNCHANGED besidesMuSig
    /\ UNCHANGED ledgerVars

\* 2.1.14 (lines 664-671), 2.2.2 (lines 172-177), 3.1.4 (lines 458-483):
\* (3.1.4: negate for the key path,) generate the nonces, aggregate, negate
NonceAggregation ==
    /\ pc = (IF flow = "2.1" THEN "Aggregated" ELSE "Tweaked")
    /\ \E k \in [Signers(flow) -> Scalars] :
         LET agg == aggregate_schnorr_nonces([i \in Signers(flow) |-> get_pubkey(k[i])])
         IN  /\ generated' = generated + NSigners(flow)
             /\ nonce_of' = [i \in Signers(flow) |-> generated + i]
             /\ agg_pubkey_tweaked' = KeyPathOutput(flow, agg_pubkey_tweaked)
             /\ privkey_c' = KeyPathPrivkeys(flow, agg_pubkey_tweaked, privkey_c)
             /\ tweak_keyPath' = KeyPathTweak(flow, agg_pubkey_tweaked, tweak)
             /\ R_agg' = agg.R_agg
             /\ negated' = agg.negated
             /\ IF ~ValidPoint(agg.R_agg)
                THEN /\ DomainError
                     /\ nonce' = k
                ELSE IF NonceNegationRaises(flow, agg.negated)
                THEN /\ pc' = "Error"
                     /\ err' = "NameError"
                     /\ nonce' = k
                ELSE /\ nonce' = NoncesNegated(agg.negated, k)
                     /\ pc' = "NoncesExchanged"
                     /\ err' = err
    /\ UNCHANGED <<flow, privkey, pubkey, c_map, pubkey_c, agg_pubkey, tweak, msg, s,
                   sig_agg, verified, tampered>>
    /\ UNCHANGED <<session, sign_log>>
    /\ UNCHANGED besidesMuSig

\* a signing step in which every signer is handed the first signer's nonce
NonceArgument_first(i) == 1

\* the nonce handed to the i-th sign_musig call: s1 gets nonce1, s2 gets nonce2 (2.1.14);
\* k1, k2 (2.2.2); nonceA, nonceB, nonceC (3.1.4)
NonceArgument(i) == i

\* 2.1.14 (lines 658, 676-677), 2.2.2 (lines 180-188), 3.1.4 (lines 472, 487-489)
PartialSign ==
    /\ pc = "NoncesExchanged"
    /\ \E m \in Msgs :
         /\ msg' = m
         /\ s' = [i \in Signers(flow) |->
                    sign_musig(privkey_c[i], nonce[NonceArgument(i)], R_agg,
                               SigningKey(flow, agg_pubkey, agg_pubkey_tweaked), m)]
         /\ sign_log' = sign_log \o
                [i \in Signers(flow) |->
                    [session |-> session, nonce |-> nonce_of[NonceArgument(i)], msg |-> m]]
    /\ pc' = "PartialSigsCollected"
    /\ UNCHANGED <<session, generated, nonce_of>>
    /\ UNCHANGED <<flow, err, privkey, pubkey, c_map, privkey_c, pubkey_c, agg_pubkey, tweak,
                   agg_pubkey_tweaked, tweak_keyPath, nonce, R_agg, negated, sig_agg,
                   verified, tampered>>
    /\ UNCHANGED besidesMuSig

\* an aggregation that does not wait for the partial signatures
AggregateSignature_early ==
    /\ pc \in {"NoncesExchanged", "PartialSigsCollected"}
    /\ LET P   == SigningKey(flow, agg_pubkey, agg_pubkey_tweaked)
           e   == musig_digest(R_agg, P, msg)
           sg  == aggregate_musig_signatures(
                      PartialSignatureList(flow, s, e, tweak, tweak_keyPath), R_agg)
       IN  /\ sig_agg' = sg
           /\ verified' = FinalVerification(flow, agg_pubkey, agg_pubkey_tweaked, sg, msg)
    /\ pc' = "AggregatedSignature"
    /\ UNCHANGED <<flow, err, privkey, pubkey, c_map, privkey_c, pubkey_c, agg_pubkey, tweak,
                   agg_pubkey_tweaked, tweak_keyPath, nonce, R_agg, negated, msg, s, tampered>>
    /\ UNCHANGED besidesMuSig
    /\ UNCHANGED ledgerVars

\* 2.1.14 (lines 678-688), 2.2.2 (lines 186-190), 3.1.4 (lines 490-495)
AggregateSignature ==
    /\ pc = "PartialSigsCollected"
    /\ LET P   == SigningKey(flow, agg_pubkey, agg_pubkey_tweaked)
           e   == musig_digest(R_agg, P, msg)
           sg  == aggregate_musig_signatures(
                      PartialSignatureList(flow, s, e, tweak, tweak_keyPath), R_agg)
       IN  /\ sig_agg' = sg
           /\ verified' = FinalVerification(flow, agg_pubkey, agg_pubkey_tweaked, sg, msg)
    /\ pc' = "AggregatedSignature"
    /\ UNCHANGED <<flow, err, privkey, pubkey, c_map, privkey_c, pubkey_c, agg_pubkey, tweak,
                   agg_pubkey_tweaked, tweak_keyPath, nonce, R_agg, negated, msg, s, tampered>>
    /\ UNCHANGED besidesMuSig
    /\ UNCHANGED ledgerVars

\* one signer hands in another scalar than its partial signature
TamperPartialSignature ==
    /\ pc = "PartialSigsCollected"
    /\ ~tampered
    /\ \E i \in Signers(flow), v \in 0..(SECP256K1_ORDER - 1) :
         /\ v # s[i]
         /\ s' = [s EXCEPT ![i] = v]
    /\ tampered' = TRUE
    /\ UNCHANGED <<flow, pc, err, privkey, pubkey, c_map, privkey_c, pubkey_c, agg_pubkey,
                   tweak, agg_pubkey_tweaked, tweak_keyPath, nonce, R_agg, negated, msg,
                   sig_agg, verified>>
    /\ UNCHANGED besidesMuSig
    /\ UNCHANGED ledgerVars

\* the fields of a session that are set later
MuSigBlank ==
    /\ err = "none"
    /\ c_map = <<>>
    /\ privkey_c = <<>>
    /\ pubkey_c = <<>>
    /\ agg_pubkey = INFINITY
    /\ tweak = 0
    /\ agg_pubkey_tweaked = INFINITY
    /\ tweak_keyPath = 0
    /\ nonce = <<>>
    /\ R_agg = INFINITY
    /\ negated = FALSE
    /\ msg = <<>>
    /\ s = <<>>
    /\ sig_agg = <<>>
    /\ verified = FALSE
    /\ tampered = FALSE

\* 2.1.7, 2.2.2 (lines 142-145), 3.1.2 (lines 132-139): the signers generate their keys
InitMuSig ==
    /\ flow \in Flows
    /\ pc = "KeysCollected"
    /\ privkey \in [Signers(flow) -> GeneratedSecrets(flow)]
    /\ pubkey = [i \in Signers(flow) |-> get_pubkey(privkey[i])]
    /\ MuSigBlank

\* no MuSig session runs
IdleMuSig ==
    /\ flow = "none"
    /\ pc = "Idle"
    /\ privkey = <<>>
    /\ pubkey = <<>>
    /\ MuSigBlank

NextMuSig ==
    \/ KeyAggregation
    \/ TweakKey
    \/ NonceAggregation
    \/ PartialSign
    \/ AggregateSignature

NextTamper == NextMuSig \/ TamperPartialSignature

\* no nonce is generated and no partial signature computed yet
LedgerBlank ==
    /\ session = 1
    /\ generated = 0
    /\ nonce_of = <<>>
    /\ sign_log = <<>>

\* another session of the same signers: the cells are run again, from the key aggregation on
NewSession ==
    /\ pc \in {"AggregatedSignature", "Error"}
    /\ session < MaxSessions
    /\ session' = session + 1
    /\ pc' = "KeysCollected"
    /\ UNCHANGED <<flow, privkey, pubkey>>
    /\ err' = "none"
    /\ c_map' = <<>>
    /\ privkey_c' = <<>>
    /\ pubkey_c' = <<>>
    /\ agg_pubkey' = INFINITY
    /\ tweak' = 0
    /\ agg_pubkey_tweaked' = INFINITY
    /\ tweak_keyPath' = 0
    /\ nonce' = <<>>
    /\ R_agg' = INFINITY
    /\ negated' = FALSE
    /\ msg' = <<>>
    /\ s' = <<>>
    /\ sig_agg' = <<>>
    /\ verified' = FALSE
    /\ tampered' = FALSE
    /\ nonce_of' = <<>>
    /\ UNCHANGED <<generated, sign_log>>
    /\ UNCHANGED besidesMuSig

\* the MuSig flows run one after another
NextSessions ==
    \/ NextMuSig
    \/ NewSession

(***************************************************************************)
(* The key tweaking examples 2.2.1, 2.2.3 and 2.2.4                        *)
(***************************************************************************)
Examples == {"2.2.1", "2.2.3", "2.2.5"}

\* the contracts Alice and Bob may commit to, as byte strings
Contracts == {<<c>> : c \in 1..MaxContract}

\* generate_bip340_key_pair() in 2.2.1, generate_key_pair() in 2.2.3
ExampleSecrets(ex) ==
    IF ex = "2.2.1" THEN {x \in Scalars : has_even_y(get_pubkey(x))} ELSE Scalars

\* 2.2.3: t = sha256(contract); 2.2.5: t = tagged_hash("TapTweak", P_key.get_bytes() + contract)
ContractTweak(ex, P, c) ==
    IF ex = "2.2.5" THEN int_from_bytes(tagged_hash("TapTweak", get_bytes(P) \o c))
    ELSE int_from_bytes(sha256(c))

\* 2.2.1: random.randrange(1, SECP256K1_ORDER); 2.2.3, 2.2.5: the tweak of a contract
ExampleTweaks(ex) ==
    IF ex = "2.2.1" THEN [contract : {<<>>}, t : Scalars]
    ELSE {[contract |-> c, t |-> ContractTweak(ex, P_key, c)] : c \in Contracts}

\* a tweaked private key that is the private key itself
TweakedPrivkey_untweaked(x, tw) == x

\* 2.2.1: privkey + tweak_private; 2.2.3: x_key.add(t)
TweakedPrivkey(x, tw) == ScalarAdd(x, tw)

\* 2.2.1: pubkey + tweak_point; 2.2.3: P_key.tweak_add(t)
TweakedPubkey(ex, P, tw) ==
    IF ex = "2.2.1" THEN PointAdd(P, get_pubkey(tw)) ELSE tweak_add(P, tw)

\* an alternative private key with the two tweaks exchanged: x + t2 - t
AlternativePrivkey_exchanged(x, tw, tw2) ==
    (x + 2 * HashSpace * SECP256K1_ORDER + tw2 - tw) % SECP256K1_ORDER

\* 2.2.4: (x_int - t2_int + t_int) % SECP256K1_ORDER
AlternativePrivkey(x, tw, tw2) ==
    (x + 2 * HashSpace * SECP256K1_ORDER - tw2 + tw) % SECP256K1_ORDER

\* Bob's check that the key P and the tweak tw commit to Q
CommitmentCheck(P, tw, Q) == ValidScalar(tw) /\ tweak_add(P, tw) = Q

\* a domain error stops the example
ExampleError == step' = "Error"

\* a tweak that is never refused: the scalar wraps modulo the order, the key may be invalid
TweakRejected_wrapped(ex, x, P, tw) == FALSE

\* tweak_add / add refuse a tweak that is no scalar in [1, n) and a tweaked key that is the
\* identity point (or the zero scalar)
TweakRejected(ex, x, P, tw) ==
    \/ ~ValidScalar(tw)
    \/ ~ValidScalar(TweakedPrivkey(x, tw))
    \/ ~ValidPoint(TweakedPubkey(ex, P, tw))

\* 2.2.1 (lines 99-108), 2.2.3 (lines 247-254): derive the tweak, tweak the key pair
TweakKeyPair ==
    /\ step = "KeyGenerated"
    /\ \E c \in ExampleTweaks(example) :
         /\ contract' = c.contract
         /\ t_int' = c.t
         /\ IF TweakRejected(example, x_key, P_key, c.t)
            THEN /\ ExampleError
                 /\ UNCHANGED <<q_key, Q_key>>
            ELSE /\ q_key' = TweakedPrivkey(x_key, c.t)
                 /\ Q_key' = TweakedPubkey(example, P_key, c.t)
                 /\ step' = "Tweaked"
    /\ UNCHANGED <<example, x_key, P_key, sig, verify_sig, verify_tweak,
                   alternative_contract, t2_int, x2_key, P2_key>>
    /\ UNCHANGED besidesTweak

\* 2.2.1 (lines 111-114), 2.2.3 (lines 257-267): sign with the tweaked private key,
\* verify against the tweaked public key (and check the commitment)
SignTweaked ==
    /\ step = "Tweaked"
    /\ \E m \in Msgs :
         LET sg == sign_schnorr(q_key, m)
         IN  IF sg = <<>>
             THEN /\ ExampleError
                  /\ UNCHANGED <<sig, verify_sig, verify_tweak>>
             ELSE /\ sig' = [sig |-> sg, msg |-> m]
                  /\ verify_sig' = verify_schnorr(Q_key, sg, m)
                  /\ verify_tweak' = IF example = "2.2.1" THEN verify_tweak
                                     ELSE CommitmentCheck(P_key, ContractTweak(example, P_key, contract), Q_key)
                  /\ step' = "Signed"
    /\ UNCHANGED <<example, x_key, P_key, contract, t_int, q_key, Q_key,
                   alternative_contract, t2_int, x2_key, P2_key>>
    /\ UNCHANGED besidesTweak

\* 2.2.4 (lines 302-326): Alice picks another contract and recomputes her key pair
ModifyCommitment ==
    /\ step = "Signed"
    /\ example = "2.2.3"
    /\ \E c \in Contracts \ {contract} :
         LET tw2 == int_from_bytes(sha256(c))
             x2  == AlternativePrivkey(x_key, t_int, tw2)
         IN  /\ alternative_contract' = c
             /\ t2_int' = tw2
             /\ IF ~ValidScalar(tw2) \/ ~ValidScalar(x2)
                THEN /\ ExampleError
                     /\ UNCHANGED <<x2_key, P2_key, verify_sig, verify_tweak>>
                ELSE /\ x2_key' = x2
                     /\ P2_key' = get_pubkey(x2)
                     /\ verify_sig' = verify_schnorr(Q_key, sig.sig, sig.msg)
                     /\ verify_tweak' = CommitmentCheck(get_pubkey(x2), tw2, Q_key)
                     /\ step' = "Modified"
    /\ UNCHANGED <<example, x_key, P_key, contract, t_int, q_key, Q_key, sig>>
    /\ UNCHANGED besidesTweak

\* the fields of an example that are set later
TweakBlank ==
    /\ contract = <<>>
    /\ t_int = 0
    /\ q_key = 0
    /\ Q_key = INFINITY
    /\ sig = <<>>
    /\ verify_sig = FALSE
    /\ verify_tweak = FALSE
    /\ alternative_contract = <<>>
    /\ t2_int = 0
    /\ x2_key = 0
    /\ P2_key = INFINITY

\* 2.2.1 (line 94), 2.2.3 (line 243): generate the key pair
InitTweak ==
    /\ example \in Examples
    /\ step = "KeyGenerated"
    /\ x_key \in ExampleSecrets(example)
    /\ P_key = get_pubkey(x_key)
    /\ TweakBlank

\* no key tweaking example runs
IdleTweak ==
    /\ example = "none"
    /\ step = "Idle"
    /\ x_key = 0
    /\ P_key = INFINITY
    /\ TweakBlank

NextTweak ==
    \/ TweakKeyPair
    \/ SignTweaked
    \/ ModifyCommitment

(***************************************************************************)
(* The Huffman TapTree constructor of 2.5                                  *)
(***************************************************************************)
\* the internal key of the TapTrees of 2.5, as x-only bytes
internal_pubkey == <<7>>

\* the leaf version of a tapscript (0xc0)
TAPSCRIPT_VER == 192

\* the bytes of a control block before the inclusion proof: version byte and internal key
ControlBlockHeader == 33

\* the bytes of one hash of the inclusion proof
HashLen == 32

\* the pay-to-pubkey tapscript of the i-th generated key, as a byte string
pk_script(i) == <<i>>

RECURSIVE LexLess(_, _)
\* a < b for byte strings
LexLess(a, b) ==
    IF b = <<>> THEN FALSE
    ELSE IF a = <<>> THEN TRUE
    ELSE IF Head(a) # Head(b) THEN Head(a) < Head(b)
    ELSE LexLess(Tail(a), Tail(b))

\* the 32 bytes of a hash as they compare: scattered, and different for different hashes
digest(h) == <<Mix(5, h)>> \o h

\* h1 < h2 for two tagged hashes
HashLess(h1, h2) == LexLess(digest(h1), digest(h2))

\* the identifying hash of a leaf: tagged_hash("TapLeaf", version || script)
tapleaf_hash(script) == tagged_hash("TapLeaf", <<TAPSCRIPT_VER>> \o script)

\* the identifying hash of a branch: the children's hashes are sorted before hashing
tapbranch_hash(h1, h2) ==
    tagged_hash("TapBranch", IF HashLess(h1, h2) THEN h1 \o h2 ELSE h2 \o h1)

\* TapLeaf().construct_pk(pubkey): a node with one script and an empty inclusion proof
TapLeaf(i) ==
    [hash |-> tapleaf_hash(pk_script(i)), path |-> [sc \in {i} |-> <<>>]]

\* a branch that hashes its children in the order they are given in
Tapbranch_asGiven(l, r) ==
    [hash |-> tagged_hash("TapBranch", l.hash \o r.hash),
     path |-> [sc \in DOMAIN l.path \cup DOMAIN r.path |->
                  IF sc \in DOMAIN l.path THEN Append(l.path[sc], r.hash)
                  ELSE Append(r.path[sc], l.hash)]]

\* a branch that puts the hash of the sibling subtree in front of the proof
Tapbranch_siblingFirst(l, r) ==
    [hash |-> tapbranch_hash(l.hash, r.hash),
     path |-> [sc \in DOMAIN l.path \cup DOMAIN r.path |->
                  IF sc \in DOMAIN l.path THEN <<r.hash>> \o l.path[sc]
                  ELSE <<l.hash>> \o r.path[sc]]]

\* Tapbranch(l, r): every script below gets the hash of the sibling subtree appended
Tapbranch(l, r) ==
    [hash |-> tapbranch_hash(l.hash, r.hash),
     path |-> [sc \in DOMAIN l.path \cup DOMAIN r.path |->
                  IF sc \in DOMAIN l.path THEN Append(l.path[sc], r.hash)
                  ELSE Append(r.path[sc], l.hash)]]

\* queue entries that compare by frequency alone
EntryLess_frequencyOnly(a, b) == a[1] < b[1]

\* the order of the queue: by assigned frequency, then by tagged hash
EntryLess(a, b) ==
    \/ a[1] < b[1]
    \/ a[1] = b[1] /\ HashLess(a[2].hash, b[2].hash)

\* a pop that takes the first of the highest entries
HuffmanPop_highest(q) ==
    CHOOSE i \in 1..Len(q) :
        /\ \A j \in 1..Len(q) : ~EntryLess(q[i], q[j])
        /\ \A j \in 1..(i - 1) : EntryLess(q[j], q[i])

\* the entry a pop takes: the lowest one (the first of them in the queue)
HuffmanPop(q) ==
    CHOOSE i \in 1..Len(q) :
        /\ \A j \in 1..Len(q) : ~EntryLess(q[j], q[i])
        /\ \A j \in 1..(i - 1) : EntryLess(q[i], q[j])

\* the queue without its i-th entry
Remove(q, i) == [j \in 1..(Len(q) - 1) |-> IF j < i THEN q[j] ELSE q[j + 1]]

\* a round that pushes the parent and leaves its second child in the queue
HuffmanMerge_keepsSecond(q) ==
    LET i  == HuffmanPop(q)
        l  == q[i]
        q1 == Remove(q, i)
        j  == HuffmanPop(q1)
        r  == q1[j]
    IN  Append(q1, <<l[1] + r[1], Tapbranch(l[2], r[2])>>)

\* a round whose parent weighs one more than its two children together
HuffmanMerge_heavierParent(q) ==
    LET i  == HuffmanPop(q)
        l  == q[i]
        q1 == Remove(q, i)
        j  == HuffmanPop(q1)
        r  == q1[j]
    IN  Append(Remove(q1, j), <<l[1] + r[1] + 1, Tapbranch(l[2], r[2])>>)

\* one round of the loop: pop the two lowest entries, push their parent
HuffmanMerge(q) ==
    LET i  == HuffmanPop(q)
        l  == q[i]
        q1 == Remove(q, i)
        j  == HuffmanPop(q1)
        r  == q1[j]
    IN  Append(Remove(q1, j), <<l[1] + r[1], Tapbranch(l[2], r[2])>>)

\* the control block of a script: version byte, internal key, inclusion proof
ControlBlock(proof) == [key |-> internal_pubkey, proof |-> proof]

\* len(controlblock)
ControlBlockLen(cb) == ControlBlockHeader + HashLen * Len(cb.proof)

\* int((len(controlblock) - 33)/32): the depth of the leaf the control block is for
ControlBlockDepth(cb) == (ControlBlockLen(cb) - 33) \div 32

\* the opcode that starts a segwit v1 output script
OP_1 == 81

\* tagged_hash("TapTweak", internal key || root hash)
TapTweak(root) == tagged_hash("TapTweak", internal_pubkey \o root.hash)

\* the output key of a tree: internal_key.tweak_add(taptweak)
TaprootOutputKey(root) ==
    tweak_add(lift_x(internal_pubkey[1]), int_from_bytes(TapTweak(root)))

\* tweak_add fails: the tweak is not below the group order, or the sum is the identity
ConstructRaises(root) ==
    \/ int_from_bytes(TapTweak(root)) >= SECP256K1_ORDER
    \/ ~ValidPoint(TaprootOutputKey(root))

\* taptree.construct(): the output script, the taptweak and the control block of every script
construct(root) ==
    [segwit_v1_script |-> <<OP_1>> \o get_bytes(TaprootOutputKey(root)),
     tweak            |-> TapTweak(root),
     control_map      |-> [sc \in DOMAIN root.path |-> ControlBlock(root.path[sc])]]

\* the lists with the entries of list in another order
Reorderings(list) ==
    {[i \in DOMAIN list |-> list[perm[i]]] :
        perm \in {f \in [DOMAIN list -> DOMAIN list] : \A i, j \in DOMAIN list : f[i] = f[j] => i = j}}

\* the queue seeded with one entry per (frequency, tapleaf) pair of the list
SeededQueue(list) == [i \in DOMAIN list |-> <<list[i][1], TapLeaf(list[i][2])>>]

\* taptree.huffman_constructor(tuple_list): place all leaves in the queue;
\* the second construction gets the same pairs in any order
huffman_constructor ==
    /\ hstep \in {"Listed", "Built"}
    /\ IF hstep = "Listed"
       THEN /\ queue' = SeededQueue(tuple_list)
            /\ UNCHANGED <<tuple_list2, build>>
       ELSE /\ \E list \in Reorderings(tuple_list) :
                 /\ tuple_list2' = list
                 /\ queue' = SeededQueue(list)
            /\ build' = 2
    /\ hstep' = "Queued"
    /\ merges' = 0
    /\ UNCHANGED <<tuple_list, taptree, taptree2>>
    /\ UNCHANGED besidesHuffman

\* while the queue has more than one entry: merge the two lowest
HuffmanLoop ==
    /\ hstep = "Queued"
    /\ Len(queue) > 1
    /\ queue' = HuffmanMerge(queue)
    /\ merges' = merges + 1
    /\ UNCHANGED <<tuple_list, tuple_list2, build, hstep, taptree, taptree2>>
    /\ UNCHANGED besidesHuffman

\* the last entry is the root: segwit_v1_script, tweak, control_map = taptree.construct();
\* a construct() that raises binds nothing
TapTreeConstruct ==
    /\ hstep = "Queued"
    /\ Len(queue) = 1
    /\ ~ConstructRaises(queue[1][2])
    /\ IF build = 1
       THEN /\ taptree' = construct(queue[1][2])
            /\ hstep' = "Built"
            /\ UNCHANGED taptree2
       ELSE /\ taptree2' = construct(queue[1][2])
            /\ hstep' = "Rebuilt"
            /\ UNCHANGED taptree
    /\ UNCHANGED <<tuple_list, tuple_list2, build, queue, merges>>
    /\ UNCHANGED besidesHuffman

\* a selection that may take any entry of the queue, whatever its frequency
LowestByFrequency_any(q) == DOMAIN q

\* the entries of the queue no other entry has a lower frequency than: the ones a
\* secondary sorting criterion chooses between
LowestByFrequency(q) == {i \in DOMAIN q : \A j \in DOMAIN q : q[i][1] <= q[j][1]}

\* one round of the loop under an arbitrary secondary sorting criterion: the two entries
\* popped are lowest by frequency, whichever of the tied entries they are
HuffmanLoopAnyOrder ==
    /\ hstep = "Queued"
    /\ Len(queue) > 1
    /\ \E i \in LowestByFrequency(queue) :
         LET q1 == Remove(queue, i)
         IN  \E j \in LowestByFrequency(q1) :
                 queue' = Append(Remove(q1, j),
                                 <<queue[i][1] + q1[j][1], Tapbranch(queue[i][2], q1[j][2])>>)
    /\ merges' = merges + 1
    /\ UNCHANGED <<tuple_list, tuple_list2, build, hstep, taptree, taptree2>>
    /\ UNCHANGED besidesHuffman

\* the fields of a construction that are set later
HuffmanBlank ==
    /\ tuple_list2 = <<>>
    /\ build = 1
    /\ queue = <<>>
    /\ merges = 0
    /\ taptree = <<>>
    /\ taptree2 = <<>>

\* the (frequency, tapleaf) pairs: leaf i with a frequency of 1..MaxWeight
InitHuffman ==
    /\ \E n \in 1..MaxLeaves :
         tuple_list \in {[i \in 1..n |-> <<w[i], i>>] : w \in [1..n -> 1..MaxWeight]}
    /\ hstep = "Listed"
    /\ HuffmanBlank

\* Example 2.5.2: [(5, tapleafA), (4, tapleafB), (3, tapleafC), (2, tapleafD), (1, tapleafE)]
Example252List == <<<<5, 1>>, <<4, 2>>, <<3, 3>>, <<2, 4>>, <<1, 5>>>>

\* Exercise 2.5.3: weightA..weightD = 1, weightE = 4, weightF = 8 on tapleafA..tapleafF
Exercise253List == <<<<1, 1>>, <<1, 2>>, <<1, 3>>, <<1, 4>>, <<4, 5>>, <<8, 6>>>>

\* the (frequency, tapleaf) pairs the cells of the notebook pass to the constructor
InitNotebook ==
    /\ tuple_list \in {Example252List, Exercise253List}
    /\ hstep = "Listed"
    /\ HuffmanBlank

\* no TapTree is constructed
IdleHuffman ==
    /\ tuple_list = <<>>
    /\ hstep = "Idle"
    /\ HuffmanBlank

NextHuffman ==
    \/ huffman_constructor
    \/ HuffmanLoop
    \/ TapTreeConstruct

\* the four Tapbranch calls of Example 2.5.1
BranchCalls == 1..4

\* a manual assembly that joins C with AB and puts DE next to them
ManualTree_CwithAB(swap) ==
    LET Branch(k, l, r) == IF swap[k] THEN Tapbranch(r, l) ELSE Tapbranch(l, r)
        tapbranchDE  == Branch(1, TapLeaf(4), TapLeaf(5))
        tapbranchAB  == Branch(3, TapLeaf(1), TapLeaf(2))
        tapbranchABC == Branch(2, TapLeaf(3), tapbranchAB)
    IN  Branch(4, tapbranchABC, tapbranchDE)

\* Example 2.5.1: tapbranchDE, tapbranchCDE, tapbranchAB, tapbranchABCDE, each Tapbranch
\* given its two children in the order of the cell or exchanged
ManualTree(swap) ==
    LET Branch(k, l, r) == IF swap[k] THEN Tapbranch(r, l) ELSE Tapbranch(l, r)
        tapbranchDE  == Branch(1, TapLeaf(4), TapLeaf(5))
        tapbranchCDE == Branch(2, TapLeaf(3), tapbranchDE)
        tapbranchAB  == Branch(3, TapLeaf(1), TapLeaf(2))
    IN  Branch(4, tapbranchAB, tapbranchCDE)

\* taptree = TapTree(key=internal_pubkey, root=tapbranchABCDE); taptree.construct()
ManualConstruct ==
    /\ tuple_list = Example252List
    /\ taptree_manual = <<>>
    /\ \E swap \in [BranchCalls -> BOOLEAN] :
         /\ ~ConstructRaises(ManualTree(swap))
         /\ child_order' = swap
         /\ taptree_manual' = construct(ManualTree(swap))
    /\ UNCHANGED besidesManual

\* no TapTree is assembled by hand yet
ManualBlank ==
    /\ child_order = <<>>
    /\ taptree_manual = <<>>

\* the cells of 2.5: the assembly by hand and the constructions
NextNotebook ==
    \/ ManualConstruct
    \/ NextHuffman

(***************************************************************************)
(* The signature digests of the spending transaction (3.1.4-3.1.6)         *)
(***************************************************************************)
delay == 432

long_delay == 1440

SIGHASH_ALL_TAPROOT == 0

\* the nine tapscripts of 3.1.2, each the three keys of construct_csa_delay (A..E as 1..5)
\* followed by its delay
backup_tapscripts ==
    << <<1, 2, 4, delay>>, <<1, 3, 4, delay>>, <<2, 3, 4, delay>>,
       <<1, 2, 5, delay>>, <<1, 3, 5, delay>>, <<2, 3, 5, delay>>,
       <<1, 4, 5, long_delay>>, <<2, 4, 5, long_delay>>, <<3, 4, 5, long_delay>> >>

\* the spending transactions the cells build: nVersion 1 or 2, nLockTime 0, one input with
\* nSequence 0, delay or long_delay, one output
SpendingTxs ==
    [nVersion : {1, 2}, nLockTime : {0}, nSequence : {0, delay, long_delay}]

\* the fields of the digest's preimage that both spending paths share: the sighash mode, the
\* transaction and the index of the input (the spent outputs are the one output of 3.1.3)
SigMsg(tx, hash_type, input_index) ==
    <<hash_type, tx.nVersion, tx.nLockTime, tx.nSequence, input_index>>

\* the fields a script-path spend appends: leaf version, script and leaf hash
LeafFields(script) == <<TAPSCRIPT_VER>> \o script \o tapleaf_hash(script)

\* a script-path digest that leaves the script out of its preimage
TaprootSignatureHash_scriptIgnored(tx, hash_type, input_index, scriptpath, script) ==
    tagged_hash("TapSighash",
                SigMsg(tx, hash_type, input_index)
                    \o (IF scriptpath THEN <<TAPSCRIPT_VER>> ELSE <<>>))

\* TaprootSignatureHash(tx, output_list, hash_type, input_index, scriptpath, script)
TaprootSignatureHash(tx, hash_type, input_index, scriptpath, script) ==
    tagged_hash("TapSighash",
                SigMsg(tx, hash_type, input_index)
                    \o (IF scriptpath THEN LeafFields(script) ELSE <<>>))

\* a cell builds the spending transaction anew: the digests of the former one are gone
ConstructSpendingTx ==
    /\ \E tx \in SpendingTxs :
         /\ tx # spending_tx
         /\ spending_tx' = tx
    /\ sighash_musig' = <<>>
    /\ sighash' = <<>>
    /\ UNCHANGED besidesSighash

\* 3.1.4: sighash_musig = TaprootSignatureHash(spending_tx, [output], SIGHASH_ALL_TAPROOT)
KeyPathSighash ==
    /\ sighash_musig = <<>>
    /\ sighash_musig' = TaprootSignatureHash(spending_tx, SIGHASH_ALL_TAPROOT, 0, FALSE, <<>>)
    /\ UNCHANGED <<spending_tx, sighash>>
    /\ UNCHANGED besidesSighash

\* 3.1.5, 3.1.6: sighash = TaprootSignatureHash(spending_tx, [output], SIGHASH_ALL_TAPROOT, 0,
\* scriptpath=True, script=tapscript.script), for one of the backup tapscripts
ScriptPathSighash ==
    /\ \E i \in DOMAIN backup_tapscripts :
         /\ i \notin DOMAIN sighash
         /\ sighash' = [j \in DOMAIN sighash \cup {i} |->
                           IF j = i
                           THEN TaprootSignatureHash(spending_tx, SIGHASH_ALL_TAPROOT, 0, TRUE,
                                                     backup_tapscripts[i])
                           ELSE sighash[j]]
    /\ UNCHANGED <<spending_tx, sighash_musig>>
    /\ UNCHANGED besidesSighash

\* the spending transaction of 3.1.3 is built and no digest computed yet
SighashBlank ==
    /\ spending_tx = [nVersion |-> 1, nLockTime |-> 0, nSequence |-> 0]
    /\ sighash_musig = <<>>
    /\ sighash = <<>>

\* the cells of 3.1.3-3.1.6 that build the spending transaction and compute its digests
NextSighash ==
    \/ ConstructSpendingTx
    \/ KeyPathSighash
    \/ ScriptPathSighash

(***************************************************************************)
(* The timelock tests of the script-path spends (3.1.5, 3.1.6)             *)
(***************************************************************************)
\* the delay of the tapscript a test spends through: tapscript_2a or tapscript_3a
DelayOf(test) == IF test = "short" THEN delay ELSE long_delay

\* test.nodes[0].testmempoolaccept(spending_tx): a version 2 transaction whose input has the
\* relative lock time nSequence is accepted once the output it spends has that many
\* confirmations
testmempoolaccept(tx, conf) == tx.nVersion >= 2 /\ conf >= tx.nSequence

\* a generate() call that counts the blocks of a test from the funding transaction alone
BlocksBeforeTimelock_fromFunding(test) == DelayOf(test) - 1

\* generate(delay - 1) in the short test, generate(long_delay - delay - 1) in the long one
BlocksBeforeTimelock(test) ==
    IF test = "short" THEN delay - 1 ELSE long_delay - delay - 1

\* what a cell sees when it asks the node about the spending transaction
MempoolResult(test, tx) ==
    [test |-> test, confirmations |-> confirmations,
     allowed |-> testmempoolaccept(tx, confirmations)]

\* 3.1.5 (lines 537-561), 3.1.6 (lines 631-659): build the script-path spend with
\* nSequence = delay or long_delay and ask the node; 3.1.6 asserts that it is refused
ScriptPathSpend ==
    /\ \/ cell = "Funded" /\ timelock_test' = "short"
       \/ cell = "Tested" /\ timelock_test = "short" /\ timelock_test' = "long"
    /\ LET tx == [nVersion |-> 2, nLockTime |-> 0, nSequence |-> DelayOf(timelock_test')]
       IN  /\ spending_tx' = tx
           /\ mempool_log' = Append(mempool_log, MempoolResult(timelock_test', tx))
           /\ cell' = IF timelock_test' = "long" /\ testmempoolaccept(tx, confirmations)
                      THEN "AssertionError" ELSE "Built"
    /\ UNCHANGED <<confirmations, to_mine>>
    /\ UNCHANGED besidesChain

\* lines 592, 689: test.nodes[0].generate(...) is called for the blocks before the timelock
GenerateBeforeTimelock ==
    /\ cell = "Built"
    /\ to_mine' = BlocksBeforeTimelock(timelock_test)
    /\ cell' = "Mining"
    /\ UNCHANGED <<confirmations, timelock_test, mempool_log, spending_tx>>
    /\ UNCHANGED besidesChain

\* the node mines one block of a generate() call; the first block confirms the funding
\* transaction
MineBlock ==
    /\ cell \in {"Mining", "LastBlock"}
    /\ to_mine > 0
    /\ to_mine' = to_mine - 1
    /\ confirmations' = confirmations + 1
    /\ UNCHANGED <<timelock_test, cell, mempool_log, spending_tx>>
    /\ UNCHANGED besidesChain

\* lines 595-597, 692-694: assert not ...['allowed'], then generate(1)
AssertRejected ==
    /\ cell = "Mining"
    /\ to_mine = 0
    /\ mempool_log' = Append(mempool_log, MempoolResult(timelock_test, spending_tx))
    /\ IF testmempoolaccept(spending_tx, confirmations)
       THEN cell' = "AssertionError" /\ UNCHANGED to_mine
       ELSE cell' = "LastBlock" /\ to_mine' = 1
    /\ UNCHANGED <<confirmations, timelock_test, spending_tx>>
    /\ UNCHANGED besidesChain

\* lines 600, 697: assert ...['allowed']
AssertAccepted ==
    /\ cell = "LastBlock"
    /\ to_mine = 0
    /\ mempool_log' = Append(mempool_log, MempoolResult(timelock_test, spending_tx))
    /\ cell' = IF testmempoolaccept(spending_tx, confirmations) THEN "Tested"
               ELSE "AssertionError"
    /\ UNCHANGED <<confirmations, timelock_test, to_mine, spending_tx>>
    /\ UNCHANGED besidesChain

\* no funding transaction is sent
ChainBlank ==
    /\ confirmations = 0
    /\ timelock_test = "none"
    /\ cell = "Idle"
    /\ to_mine = 0
    /\ mempool_log = <<>>

\* line 311: sendtoaddress() has put the funding transaction into the mempool
ChainFunded ==
    /\ confirmations = 0
    /\ timelock_test = "none"
    /\ cell = "Funded"
    /\ to_mine = 0
    /\ mempool_log = <<>>

\* the cells of the two timelock tests
NextTimelock ==
    \/ ScriptPathSpend
    \/ GenerateBeforeTimelock
    \/ MineBlock
    \/ AssertRejected
    \/ AssertAccepted

(***************************************************************************)
(* Scalar operations over the group order (0.2.1-0.2.4)                    *)
(***************************************************************************)
\* random.randrange(SECP256K1_ORDER / 2, SECP256K1_ORDER) of 0.2.3
UpperHalf == (SECP256K1_ORDER \div 2)..(SECP256K1_ORDER - 1)

\* a - b with the operands the other way round
a_minus_b_swapped(a, b) == (b - a) % SECP256K1_ORDER

\* 0.2.4: a_minus_b = (a - b) % SECP256K1_ORDER
a_minus_b(a, b) == (a - b) % SECP256K1_ORDER

\* no cell of 0.2 has run: the keys are not set and nothing is computed
ScalarBlank ==
    /\ scalar_cell = "none"
    /\ a_key = ECKey
    /\ b_key = ECKey
    /\ c_key = ECKey
    /\ left = <<>>
    /\ right = <<>>

\* Example 0.2.1: ab as ints, ab_key = a_key + b_key
ScalarAddition ==
    \E a \in Scalars, b \in Scalars :
        /\ scalar_cell' = "0.2.1"
        /\ a_key' = ECKeySet(a)
        /\ b_key' = ECKeySet(b)
        /\ left' = <<(a + b) % SECP256K1_ORDER>>
        /\ right' = <<ECKeyAdd(ECKeySet(a), ECKeySet(b))>>
        /\ UNCHANGED <<c_key, besidesScalar>>

\* Example 0.2.2: ab as ints, ab_key = a_key * b_key
ScalarMultiplication ==
    \E a \in Scalars, b \in Scalars :
        /\ scalar_cell' = "0.2.2"
        /\ a_key' = ECKeySet(a)
        /\ b_key' = ECKeySet(b)
        /\ left' = <<(a * b) % SECP256K1_ORDER>>
        /\ right' = <<ECKeyMul(ECKeySet(a), ECKeySet(b))>>
        /\ UNCHANGED <<c_key, besidesScalar>>

\* Exercise 0.2.3: left_a_plus_b and right_b_plus_a = b_key + a_key, then left_a_times_b
\* and right_b_times_a = b_key * a_key; the cell stops at the sum when the sum key has no
\* secret to print and to compare
CommutativeProperty ==
    \E a \in UpperHalf, b \in UpperHalf :
        LET right_b_plus_a  == ECKeyAdd(ECKeySet(b), ECKeySet(a))
            right_b_times_a == ECKeyMul(ECKeySet(b), ECKeySet(a))
        IN  /\ scalar_cell' = "0.2.3"
            /\ a_key' = ECKeySet(a)
            /\ b_key' = ECKeySet(b)
            /\ left' = IF right_b_plus_a.valid
                          THEN <<(a + b) % SECP256K1_ORDER, (a * b) % SECP256K1_ORDER>>
                          ELSE <<(a + b) % SECP256K1_ORDER>>
            /\ right' = IF right_b_plus_a.valid
                           THEN <<right_b_plus_a, right_b_times_a>>
                           ELSE <<right_b_plus_a>>
            /\ UNCHANGED besidesScalar
            /\ UNCHANGED c_key

\* Exercise 0.2.4: left = (a_minus_b * c) % n, right = (a_key * c_key) - (b_key * c_key)
Distributivity ==
    \E a \in Scalars, b \in Scalars, c \in Scalars :
        /\ scalar_cell' = "0.2.4"
        /\ a_key' = ECKeySet(a)
        /\ b_key' = ECKeySet(b)
        /\ c_key' = ECKeySet(c)
        /\ left' = <<(a_minus_b(a, b) * c) % SECP256K1_ORDER>>
        /\ right' = <<ECKeySub(ECKeyMul(ECKeySet(a), ECKeySet(c)),
                                ECKeyMul(ECKeySet(b), ECKeySet(c)))>>
        /\ UNCHANGED besidesScalar

\* the cells of 0.2.1-0.2.4, run in any order and any number of times
NextScalar ==
    \/ ScalarAddition
    \/ ScalarMultiplication
    \/ CommutativeProperty
    \/ Distributivity

(***************************************************************************)
(* Specifications                                                          *)
(***************************************************************************)
\* the signers of a MuSig session have generated their keys
InitSession ==
    /\ InitMuSig
    /\ IdleTweak
    /\ IdleHuffman
    /\ ManualBlank
    /\ LedgerBlank
    /\ SighashBlank
    /\ ChainBlank
    /\ ScalarBlank

\* the key pair of a key tweaking example is generated
InitExample ==
    /\ IdleMuSig
    /\ InitTweak
    /\ IdleHuffman
    /\ ManualBlank
    /\ LedgerBlank
    /\ SighashBlank
    /\ ChainBlank
    /\ ScalarBlank

\* the leaves of a TapTree have their frequencies assigned
InitTapTree ==
    /\ IdleMuSig
    /\ IdleTweak
    /\ InitHuffman
    /\ ManualBlank
    /\ LedgerBlank
    /\ SighashBlank
    /\ ChainBlank
    /\ ScalarBlank

\* the MuSig sessions of 2.1, 2.2 and 3.1
SpecMuSig == InitSession /\ [][NextMuSig]_vars

\* the MuSig sessions in which one signer may hand in a wrong partial signature
SpecTamper == InitSession /\ [][NextTamper]_vars

\* the key tweaking examples of 2.2
SpecTweak == InitExample /\ [][NextTweak]_vars

\* the MuSig sessions of 2.1, 2.2 and 3.1 run one after another
SpecSessions == InitSession /\ [][NextSessions]_vars

\* the TapTree constructions of 2.5
SpecHuffman == InitTapTree /\ [][NextHuffman]_vars

\* a round of the loop of the constructor, seen by its count alone
LoopRound ==
    /\ hstep = "Queued"
    /\ Len(queue) > 1
    /\ merges' = merges + 1

\* the TapTree constructions of 2.5, the loop of the constructor running on while its
\* condition holds
SpecHuffmanLoop == InitTapTree /\ [][NextHuffman]_vars /\ WF_merges(LoopRound)

\* the constructions of 2.5 with ties between frequencies broken in every way
NextTieBreak ==
    \/ huffman_constructor
    \/ HuffmanLoopAnyOrder
    \/ TapTreeConstruct

\* the TapTree constructions of 2.5 under every secondary sorting criterion
SpecTieBreak == InitTapTree /\ [][NextTieBreak]_vars

\* the leaves of Example 2.5.2 or of Exercise 2.5.3 have their frequencies assigned
InitNotebookTree ==
    /\ IdleMuSig
    /\ IdleTweak
    /\ InitNotebook
    /\ ManualBlank
    /\ LedgerBlank
    /\ SighashBlank
    /\ ChainBlank
    /\ ScalarBlank

\* the TapTree constructions of 2.5 with the frequencies of the notebook's cells
SpecNotebook == InitNotebookTree /\ [][NextNotebook]_vars

\* the spending transaction of 3.1.3 is built
InitSpend ==
    /\ IdleMuSig
    /\ IdleTweak
    /\ IdleHuffman
    /\ ManualBlank
    /\ LedgerBlank
    /\ SighashBlank
    /\ ChainBlank
    /\ ScalarBlank

\* the signature digests of the spending transaction of 3.1
SpecSighash == InitSpend /\ [][NextSighash]_vars

\* the taproot output of 3.1.3 is funded
InitFunded ==
    /\ IdleMuSig
    /\ IdleTweak
    /\ IdleHuffman
    /\ ManualBlank
    /\ LedgerBlank
    /\ SighashBlank
    /\ ChainFunded
    /\ ScalarBlank

\* the timelock tests of 3.1.5 and 3.1.6
SpecTimelock == InitFunded /\ [][NextTimelock]_vars

\* the notebook 0.2 is opened and none of its cells has run
InitScalar ==
    /\ IdleMuSig
    /\ IdleTweak
    /\ IdleHuffman
    /\ ManualBlank
    /\ LedgerBlank
    /\ SighashBlank
    /\ ChainBlank
    /\ ScalarBlank

\* the scalar operations of 0.2.1-0.2.4
SpecScalar == InitScalar /\ [][NextScalar]_vars

(***************************************************************************)
(* Properties of the MuSig sessions                                        *)
(***************************************************************************)
\* the session ran to its end: a signature was aggregated, or the signing cell raised
SessionEnded ==
    \/ pc = "AggregatedSignature"
    \/ pc = "Error" /\ err = "NameError"

\* the challenge of the session's signature
SessionChallenge ==
    musig_digest(R_agg, SigningKey(flow, agg_pubkey, agg_pubkey_tweaked), msg)

\* the tweak as the signature of the flow accounts for it
SessionTweak == IF flow = "3.1" THEN tweak_keyPath ELSE tweak

\* C1: in the untweaked MuSig flow (2.1), every choice of valid private keys, nonces
\* and message ends with an aggregate signature that verifies against the aggregate key.
C1_UntweakedSignatureVerifies ==
    (flow = "2.1" /\ SessionEnded) => (pc = "AggregatedSignature" /\ verified)

\* C2: once the nonces are aggregated, R_agg has an even y coordinate and the signers'
\* nonce scalars sum to the discrete logarithm of R_agg (they were negated with it).
C2_NoncesFollowAggregate ==
    (pc \in {"NoncesExchanged", "PartialSigsCollected"} \/ SessionEnded)
        => /\ has_even_y(R_agg)
           /\ get_pubkey(SumScalars(nonce) % SECP256K1_ORDER) = R_agg

\* the aggregate signature of the session with the tweak term e*t counted n times
SignatureWithTweakTerms(n) ==
    aggregate_musig_signatures(
        s \o [i \in 1..n |-> SessionChallenge * SessionTweak], R_agg)

\* the tweaked key verifies the session's signature with the tweak term counted n times
TweakTermsVerify(n) ==
    verify_schnorr(agg_pubkey_tweaked, SignatureWithTweakTerms(n), msg)

\* C3 (as stated): in the tweaked flows the signature with the term e*t added exactly once
\* verifies, and with the term left out or added once per signer it does not.
C3_TweakTermExactlyOnce ==
    (flow # "2.1" /\ pc = "AggregatedSignature")
        => /\ verified
           /\ sig_agg = SignatureWithTweakTerms(1)
           /\ ~TweakTermsVerify(0)
           /\ ~TweakTermsVerify(NSigners(flow))

\* C3 (amended): the same, provided the challenge e is not 0 modulo the group order;
\* with e = 0 the term vanishes and every number of terms verifies.
C3_TweakTermExactlyOnceNonzeroChallenge ==
    (flow # "2.1" /\ pc = "AggregatedSignature")
        => /\ verified
           /\ sig_agg = SignatureWithTweakTerms(1)
           /\ SessionChallenge # 0 => /\ ~TweakTermsVerify(0)
                                      /\ ~TweakTermsVerify(NSigners(flow))
           /\ SessionChallenge = 0 => /\ TweakTermsVerify(0)
                                      /\ TweakTermsVerify(NSigners(flow))

\* C3 witness: a tweaked session signed with a nonzero challenge
C3_Witness ==
    /\ flow # "2.1"
    /\ pc = "AggregatedSignature"
    /\ SessionChallenge # 0
    /\ verified

\* the aggregate key as generate_musig_key returns it, before any negation
RawAggregate == generate_musig_key(pubkey).agg

\* C4: after key aggregation the aggregate key has even y and is (sum of the challenge-
\* scaled secrets) * G; if the raw aggregate had odd y, the aggregate key and every
\* signer's challenge-scaled secret and public key are the negated ones.
C4_KeyAggregationNegation ==
    pc = "Aggregated"
        => /\ has_even_y(agg_pubkey)
           /\ agg_pubkey = get_pubkey(SumScalars(privkey_c) % SECP256K1_ORDER)
           /\ ~has_even_y(RawAggregate) =>
                /\ agg_pubkey = PointNegate(RawAggregate)
                /\ \A i \in Signers(flow) :
                     /\ privkey_c[i] = ScalarNegate(ScalarMul(privkey[i], c_map[i]))
                     /\ pubkey_c[i] =
                          PointNegate(ChallengeScaledPubkeys(flow, pubkey, c_map)[i])
           /\ has_even_y(RawAggregate) =>
                /\ agg_pubkey = RawAggregate
                /\ \A i \in Signers(flow) :
                     privkey_c[i] = ScalarMul(privkey[i], c_map[i])

\* C4 witness: keys were aggregated and the raw aggregate had odd y
C4_Witness ==
    /\ pc = "Aggregated"
    /\ ~has_even_y(RawAggregate)

C6_TweakedKeyPairSigns ==
    /\ step \in {"Tweaked", "Signed", "Modified"} =>
         /\ Q_key = PointAdd(P_key, PointMul(SECP256K1_G, t_int))
         /\ Q_key = PointMul(SECP256K1_G, (x_key + t_int) % SECP256K1_ORDER)
         /\ q_key = (x_key + t_int) % SECP256K1_ORDER
    /\ step \in {"Signed", "Modified"} =>
         /\ verify_sig
         /\ verify_schnorr(Q_key, sig.sig, sig.msg)

\* C6 witness: a signature of a tweaked key was verified, for a tweaked key with odd y
C6_Witness ==
    /\ step = "Signed"
    /\ t_int # 0
    /\ ~has_even_y(Q_key)
    /\ verify_sig

\* C7: after Alice replaced the contract c by another contract c' and her key x by
\* x' = x - c' + c mod n, both (P, c) and (P2, c') pass the check P.tweak_add(c) == Q for
\* the same Q, and x' + c' is the tweaked private key she had.
C7_RawTweakCanBeModified ==
    step = "Modified" =>
        /\ alternative_contract # contract
        /\ PointAdd(P2_key, PointMul(SECP256K1_G, t2_int)) = Q_key
        /\ PointAdd(P_key, PointMul(SECP256K1_G, t_int)) = Q_key
        /\ CommitmentCheck(P_key, int_from_bytes(sha256(contract)), Q_key)
        /\ CommitmentCheck(P2_key, int_from_bytes(sha256(alternative_contract)), Q_key)
        /\ verify_tweak
        /\ (x2_key + t2_int) % SECP256K1_ORDER = q_key
        /\ P2_key = PointMul(SECP256K1_G, x2_key)

\* C7 witness: the commitment was modified to a contract with another tweak, under
\* another public key, and Bob's check passed
C7_Witness ==
    /\ step = "Modified"
    /\ t2_int # t_int
    /\ P2_key # P_key
    /\ verify_tweak

(***************************************************************************)
(* Properties of the Huffman TapTree constructor                           *)
(***************************************************************************)
\* the depth of the script sc in a constructed tree, read off its control block
DepthIn(tree, sc) == ControlBlockDepth(tree.control_map[sc])

\* C9: the tree constructed from the same (frequency, leaf) pairs in another order has the
\* same taptweak (root hash) and the same control block for every leaf script.
C9_InputOrderDoesNotMatter ==
    hstep = "Rebuilt" =>
        /\ taptree2.tweak = taptree.tweak
        /\ DOMAIN taptree2.control_map = DOMAIN taptree.control_map
        /\ \A sc \in DOMAIN taptree.control_map :
             taptree2.control_map[sc] = taptree.control_map[sc]

\* C9 witness: a tree of at least three leaves, two of them with the same frequency, was
\* constructed a second time from the pairs in another order
C9_Witness ==
    /\ hstep = "Rebuilt"
    /\ Len(tuple_list) >= 3
    /\ tuple_list2 # tuple_list
    /\ tuple_list2[1][1] = tuple_list2[2][1]
    /\ taptree2.tweak = taptree.tweak

\* C10: in a constructed tree a leaf with a strictly higher frequency is never deeper than
\* a leaf with a lower frequency.
C10_HigherWeightNotDeeper ==
    hstep \in {"Built", "Rebuilt"} =>
        \A a, b \in DOMAIN taptree.control_map :
            tuple_list[a][1] > tuple_list[b][1] =>
                /\ DepthIn(taptree, a) <= DepthIn(taptree, b)
                /\ hstep = "Rebuilt" => DepthIn(taptree2, a) <= DepthIn(taptree2, b)

\* C10 witness: a tree was constructed in which a leaf of higher frequency is less deep
\* than a leaf of lower frequency
C10_Witness ==
    /\ hstep = "Built"
    /\ \E a, b \in DOMAIN taptree.control_map :
         /\ tuple_list[a][1] > tuple_list[b][1]
         /\ DepthIn(taptree, a) < DepthIn(taptree, b)

\* the inclusion proof of the script sc in a constructed tree, leaf to root
ProofIn(tree, sc) == tree.control_map[sc].proof

\* the leaves of the scripts a and b are the two children of one branch
SiblingLeaves(tree, a, b) ==
    /\ ProofIn(tree, a)[1] = tapleaf_hash(pk_script(b))
    /\ ProofIn(tree, b)[1] = tapleaf_hash(pk_script(a))
    /\ Tail(ProofIn(tree, a)) = Tail(ProofIn(tree, b))

\* the leaf of the script c is the sibling of the branch over the leaves of a and b
NestedUnder(tree, a, b, c) ==
    /\ SiblingLeaves(tree, a, b)
    /\ Len(ProofIn(tree, a)) >= 2
    /\ ProofIn(tree, a)[2] = tapleaf_hash(pk_script(c))
    /\ ProofIn(tree, c)[1] = tapbranch_hash(tapleaf_hash(pk_script(a)), tapleaf_hash(pk_script(b)))

\* the tree of Example 2.5.2: A (5) and B (4) are siblings at depth 2, E (1) and D (2) are
\* siblings at depth d below the branch whose other child is C (3)
Example252Shape(tree, d) ==
    /\ DOMAIN tree.control_map = 1..5
    /\ SiblingLeaves(tree, 1, 2)
    /\ DepthIn(tree, 1) = 2
    /\ DepthIn(tree, 2) = 2
    /\ NestedUnder(tree, 5, 4, 3)
    /\ DepthIn(tree, 5) = d
    /\ DepthIn(tree, 4) = d

\* C11 as stated: the Huffman construction over the weights [5,4,3,2,1] puts the weight-5
\* and weight-4 leaves as siblings at depth 2 and the weight-1 and weight-2 leaves as
\* siblings at depth 4 under the branch next to the weight-3 leaf.
C11_LightLeavesAtDepthFour ==
    (tuple_list = Example252List /\ hstep \in {"Built", "Rebuilt"}) =>
        Example252Shape(taptree, 4)

\* C11 amended: the Huffman construction over the weights [5,4,3,2,1] puts the weight-5 and
\* weight-4 leaves as siblings at depth 2 and the weight-1 and weight-2 leaves as siblings
\* at depth 3, their parent being the sibling of the weight-3 leaf (itself at depth 2).
C11_LightLeavesAtDepthThree ==
    (tuple_list = Example252List /\ hstep \in {"Built", "Rebuilt"}) =>
        /\ Example252Shape(taptree, 3)
        /\ DepthIn(taptree, 3) = 2
        /\ hstep = "Rebuilt" => Example252Shape(taptree2, 3)

\* C11 witness: the tree of Example 2.5.2 is constructed, and its lightest leaf lies three
\* levels below the root
C11_Witness ==
    /\ tuple_list = Example252List
    /\ hstep = "Built"
    /\ DepthIn(taptree, 5) = 3
    /\ SiblingLeaves(taptree, 5, 4)

\* C12: the taptweak of the tree huffman_constructor builds from the weights 5,4,3,2,1 on
\* A..E equals the taptweak of the tree assembled by hand in the Huffman merge order (DE,
\* C+DE, AB, AB+CDE), whatever left/right order each Tapbranch is given its children in.
C12_ConstructorMatchesManualTree ==
    (taptree_manual # <<>> /\ hstep \in {"Built", "Rebuilt"}) =>
        /\ taptree.tweak = taptree_manual.tweak
        /\ hstep = "Rebuilt" => taptree2.tweak = taptree_manual.tweak

\* C12 witness: the tree was assembled by hand with the children of the root and of DE
\* exchanged, the constructor has built its tree, and the two taptweaks are equal
C12_Witness ==
    /\ taptree_manual # <<>>
    /\ child_order[1]
    /\ child_order[4]
    /\ ~child_order[2]
    /\ hstep = "Built"
    /\ taptree.tweak = taptree_manual.tweak

\* the Merkle root the taptweak of a constructed tree commits to
RootOf(tree) == SubSeq(tree.tweak, 2 + Len(internal_pubkey), Len(tree.tweak))

RECURSIVE NodeLen(_)
\* the number of bytes of the node hash that starts the byte string h
NodeLen(h) ==
    IF Head(h) = TagCode("TapLeaf") THEN 3
    ELSE LET a == NodeLen(Tail(h))
         IN  1 + a + NodeLen(SubSeq(h, 2 + a, Len(h)))

RECURSIVE LeafDepth(_, _)
\* the number of branches between the node with hash h and the leaf with hash leaf below
\* it; -1 when the leaf is not below the node
LeafDepth(h, leaf) ==
    IF h = leaf THEN 0
    ELSE IF Head(h) = TagCode("TapLeaf") THEN -1
    ELSE LET a  == NodeLen(Tail(h))
             da == LeafDepth(SubSeq(h, 2, 1 + a), leaf)
             db == LeafDepth(SubSeq(h, 2 + a, Len(h)), leaf)
         IN  IF da >= 0 THEN da + 1
             ELSE IF db >= 0 THEN db + 1
             ELSE -1

RECURSIVE MerkleFold(_, _)
\* the root an inclusion proof leads to: the node is hashed with each sibling in turn
MerkleFold(h, proof) ==
    IF proof = <<>> THEN h
    ELSE MerkleFold(tapbranch_hash(h, Head(proof)), Tail(proof))

\* every control block of the tree holds depth(leaf) sibling hashes, leaf to root
ControlBlocksMatchDepth(tree) ==
    \A sc \in DOMAIN tree.control_map :
        LET cb   == tree.control_map[sc]
            leaf == tapleaf_hash(pk_script(sc))
        IN  /\ LeafDepth(RootOf(tree), leaf) >= 0
            /\ Len(cb.proof) = LeafDepth(RootOf(tree), leaf)
            /\ MerkleFold(leaf, cb.proof) = RootOf(tree)
            /\ ControlBlockLen(cb) = 33 + 32 * LeafDepth(RootOf(tree), leaf)

\* the depths the cell of Exercise 2.5.3 expects for the leaves A..F
ExpectedDepths == <<4, 4, 4, 4, 2, 1>>

\* C13: for every leaf of a constructed TapTree the control block of its script holds
\* exactly depth(leaf) sibling hashes ordered leaf to root, so its length is
\* 33 + 32*depth(leaf); with the weights A=B=C=D=1, E=4, F=8 the depths recovered from the
\* control blocks are 4,4,4,4,2,1.
C13_ControlBlockHoldsDepthHashes ==
    /\ hstep \in {"Built", "Rebuilt"} => ControlBlocksMatchDepth(taptree)
    /\ hstep = "Rebuilt" => ControlBlocksMatchDepth(taptree2)
    /\ taptree_manual # <<>> => ControlBlocksMatchDepth(taptree_manual)
    /\ (tuple_list = Exercise253List /\ hstep \in {"Built", "Rebuilt"}) =>
           \A sc \in 1..6 : DepthIn(taptree, sc) = ExpectedDepths[sc]
    /\ (tuple_list = Exercise253List /\ hstep = "Rebuilt") =>
           \A sc \in 1..6 : DepthIn(taptree2, sc) = ExpectedDepths[sc]

\* C13 witness: the tree of Exercise 2.5.3 is constructed; the control block of leaf A is
\* 33 + 32*4 bytes long and its four hashes lead from the leaf to the root
C13_Witness ==
    /\ tuple_list = Exercise253List
    /\ hstep = "Built"
    /\ ControlBlockLen(taptree.control_map[1]) = 161
    /\ LeafDepth(RootOf(taptree), tapleaf_hash(pk_script(1))) = 4
    /\ MerkleFold(tapleaf_hash(pk_script(1)), ProofIn(taptree, 1)) = RootOf(taptree)

\* an output key that is the internal key itself
OutputPubkeyBytes_untweaked(key, taptweak) == key

\* 3.1.3: output_pubkey = musig_ABC.tweak_add(int.from_bytes(taptweak, 'big')), as bytes
OutputPubkeyBytes(key, taptweak) ==
    get_bytes(tweak_add(lift_x(key[1]), int_from_bytes(taptweak)))

\* what construct() returned agrees with the tagged hash of the root and with tweak_add
ConstructRoundTrip(tree, root_hash) ==
    /\ tree.tweak = tagged_hash("TapTweak", internal_pubkey \o root_hash)
    /\ tree.segwit_v1_script = <<OP_1>> \o OutputPubkeyBytes(internal_pubkey, tree.tweak)

\* the root hash of the tree of Example 2.5.1, from the hashes of its leaves
Example251Root ==
    LET leaf(i) == tapleaf_hash(pk_script(i))
    IN  tapbranch_hash(tapbranch_hash(leaf(1), leaf(2)),
                       tapbranch_hash(leaf(3), tapbranch_hash(leaf(4), leaf(5))))

C15_BranchHashSymmetric ==
    /\ \A i, j \in DOMAIN queue :
           Tapbranch(queue[i][2], queue[j][2]).hash = Tapbranch(queue[j][2], queue[i][2]).hash
    /\ taptree_manual # <<>> =>
           \A swap \in [BranchCalls -> BOOLEAN] :
               ManualTree(swap).hash = RootOf(taptree_manual)

\* C15 witness: the queue holds leaves and a branch with different hashes, and the tree was
\* assembled by hand with the children of CDE and of AB exchanged
C15_Witness ==
    /\ hstep = "Queued"
    /\ Len(queue) = 3
    /\ \E i, j \in DOMAIN queue :
         /\ queue[i][2].hash # queue[j][2].hash
         /\ Cardinality(DOMAIN queue[i][2].path) > 1
         /\ Tapbranch(queue[i][2], queue[j][2]).hash = Tapbranch(queue[j][2], queue[i][2]).hash
    /\ taptree_manual # <<>>
    /\ child_order[2]
    /\ child_order[3]
    /\ ManualTree(child_order).hash = ManualTree([k \in BranchCalls |-> FALSE]).hash

(***************************************************************************)
(* Properties of the order of a MuSig session                              *)
(***************************************************************************)
\* the steps a session takes from one state to the next; flows 2.2 and 3.1 tweak the
\* aggregate key before the nonces are exchanged
SessionOrder ==
    {<<"KeysCollected", "Aggregated">>,
     <<"Aggregated", "Tweaked">>,
     <<"Aggregated", "NoncesExchanged">>,
     <<"Tweaked", "NoncesExchanged">>,
     <<"NoncesExchanged", "PartialSigsCollected">>,
     <<"PartialSigsCollected", "AggregatedSignature">>}

\* one step of a session keeps the order of the protocol
OrderedStep ==
    /\ pc' # pc => (pc' = "Error" \/ <<pc, pc'>> \in SessionOrder)
    /\ s' # s =>
          /\ pc = "NoncesExchanged"
          /\ ValidPoint(SigningKey(flow, agg_pubkey, agg_pubkey_tweaked))
          /\ ValidPoint(R_agg)
          /\ UNCHANGED <<agg_pubkey, agg_pubkey_tweaked, R_agg>>
    /\ sig_agg' # sig_agg =>
          /\ pc = "PartialSigsCollected"
          /\ DOMAIN s = Signers(flow)
          /\ UNCHANGED s

\* C16: a MuSig session advances only in the order KeysCollected, Aggregated (then tweaked,
\* in 2.2 and 3.1), NoncesExchanged, PartialSigsCollected, Aggregated-Signature: a partial
\* signature is computed only when the aggregate key and the aggregate nonce are fixed,
\* and the aggregate signature only when every signer's partial signature exists.
C16_SessionAdvancesInOrder == [][OrderedStep]_vars

\* C16 witness: a session went through all its states; the signers' partial signatures and
\* the aggregate signature exist
C16_Witness ==
    /\ pc = "AggregatedSignature"
    /\ DOMAIN s = Signers(flow)
    /\ ValidPoint(R_agg)
    /\ sig_agg # <<>>
    /\ verified

(***************************************************************************)
(* Properties of the nonces                                                *)
(***************************************************************************)
\* C17: across the sessions run so far every nonce generate_schnorr_nonce() returned is
\* handed to at most one sign_musig call: no two partial signatures, of one session or of
\* two, for one message or for two, are computed with the same nonce.
C17_NonceUsedAtMostOnce ==
    /\ \A a, b \in DOMAIN sign_log :
           a # b => sign_log[a].nonce # sign_log[b].nonce
    /\ \A a \in DOMAIN sign_log : sign_log[a].nonce \in 1..generated

\* C17 witness: two sessions have signed, the second one another message than the first,
\* and the second session is at its end
C17_Witness ==
    /\ session = 2
    /\ pc = "AggregatedSignature"
    /\ \E a, b \in DOMAIN sign_log :
         /\ sign_log[a].session = 1
         /\ sign_log[b].session = 2
         /\ sign_log[a].msg # sign_log[b].msg
         /\ sign_log[a].nonce # sign_log[b].nonce

(***************************************************************************)
(* Properties of the key aggregation                                       *)
(***************************************************************************)
\* the orders the signers' public keys can be listed in
KeyOrders(f) ==
    {perm \in [Signers(f) -> Signers(f)] : \A i, j \in Signers(f) : perm[i] = perm[j] => i = j}

\* generate_musig_key on the public keys listed in the order perm
PermutedMuSigKey(perm) == generate_musig_key([i \in DOMAIN perm |-> pubkey[perm[i]]])

C21_WitnessIdentity ==
    /\ t_int \in 1..(SECP256K1_ORDER - 1)
    /\ PointAdd(P_key, PointMul(SECP256K1_G, t_int)) = INFINITY
    /\ step = "Error"

(***************************************************************************)
(* Properties of the timelock tests                                        *)
(***************************************************************************)
\* C22: a script-path spend through a leaf with relative delay d (432 or 1440) is refused
\* while the funding output has fewer than d confirmations and accepted once it has d; in
\* the test sequence no assertion fails: after the blocks mined before the timelock the
\* output has d - 1 confirmations and the spend is refused, after one more block it has d
\* and the spend is accepted, for the short and for the long delay.
C22_TimelockRejectsUntilDelay ==
    /\ cell # "AssertionError"
    /\ timelock_test # "none" =>
         /\ spending_tx.nSequence = DelayOf(timelock_test)
         /\ testmempoolaccept(spending_tx, confirmations)
                <=> confirmations >= DelayOf(timelock_test)
    /\ \A i \in DOMAIN mempool_log :
         mempool_log[i].allowed <=> mempool_log[i].confirmations >= DelayOf(mempool_log[i].test)
    /\ cell = "LastBlock" /\ to_mine = 1 =>
         /\ confirmations = DelayOf(timelock_test) - 1
         /\ ~mempool_log[Len(mempool_log)].allowed
    /\ cell = "Tested" =>
         /\ confirmations = DelayOf(timelock_test)
         /\ mempool_log[Len(mempool_log)].allowed

\* C22 witness: the long-delay test has run to its end: the spend was refused at 1439
\* confirmations and accepted at 1440
C22_Witness ==
    /\ cell = "Tested"
    /\ timelock_test = "long"
    /\ confirmations = long_delay
    /\ \E i \in DOMAIN mempool_log :
         /\ mempool_log[i] = [test |-> "long", confirmations |-> long_delay - 1, allowed |-> FALSE]
         /\ mempool_log[i + 1] = [test |-> "long", confirmations |-> long_delay, allowed |-> TRUE]

(***************************************************************************)
(* Properties of key pairs                                                 *)
(***************************************************************************)
\* C23: at every step of a MuSig flow each private key and the public key carried with it
\* are the same key: pubkey_i = privkey_i * G, and each challenge-scaled public key is
\* (c_i * x_i) * G for its own signer i, before and after the negation for an odd y.
C23_KeyPairsInSync ==
    /\ \A i \in DOMAIN pubkey : pubkey[i] = get_pubkey(privkey[i])
    /\ \A i \in DOMAIN pubkey_c : pubkey_c[i] = get_pubkey(privkey_c[i])

\* C23 restricted to the flows 2.1 and 2.2, which scale each signer's own public key
C23_KeyPairsInSyncTwoSigners ==
    flow # "3.1" => C23_KeyPairsInSync

(***************************************************************************)
(* Properties of the key-path spend                                        *)
(***************************************************************************)
\* what C24 asks of a session whose tweaked key Q' = Q + t*G has odd y: the output key, the
\* tweak (n - t) and the challenge-scaled private keys are negated before signing, and the
\* aggregate signature verifies against the even-y key of the x-only output
OddOutputKeyNegated ==
    LET Qt == tweak_add(agg_pubkey, tweak)
    IN  /\ ~has_even_y(Qt) =>
             /\ agg_pubkey_tweaked = PointNegate(Qt)
             /\ (IF flow = "3.1" THEN tweak_keyPath ELSE tweak) = SECP256K1_ORDER - tweak
             /\ get_pubkey(SumScalars(privkey_c) % SECP256K1_ORDER) = PointNegate(agg_pubkey)
        /\ pc = "AggregatedSignature" =>
             verify_schnorr(lift_x(get_bytes(Qt)[1]), sig_agg, msg)

\* C24: in every tweaked MuSig flow (2.2.2 and 3.1.4), whenever the tweaked output key has
\* odd y, the output key, every signer's challenge-scaled private key and the tweak are
\* negated before signing, and the aggregate signature verifies against the even-y key
\* that the x-only output encodes.
C24_OddOutputKeyNegated ==
    (flow \in {"2.2", "3.1"}
        /\ pc \in {"NoncesExchanged", "PartialSigsCollected", "AggregatedSignature"}) =>
        OddOutputKeyNegated

\* C24 restricted to the key-path spend of 3.1.4
C24_OddOutputKeyNegatedKeyPath ==
    (flow = "3.1"
        /\ pc \in {"NoncesExchanged", "PartialSigsCollected", "AggregatedSignature"}) =>
        OddOutputKeyNegated

(***************************************************************************)
(* Properties of the expected witness weight                               *)
(***************************************************************************)
RECURSIVE SumWeights(_, _)
\* the sum of the frequencies of the leaves S of a list
SumWeights(list, S) ==
    IF S = {} THEN 0
    ELSE LET i == CHOOSE j \in S : TRUE
         IN  list[i][1] + SumWeights(list, S \ {i})

RECURSIVE ExpectedWeightOver(_, _, _)
\* the sum over the leaves S of frequency * depth in a constructed tree
ExpectedWeightOver(list, tree, S) ==
    IF S = {} THEN 0
    ELSE LET i == CHOOSE j \in S : TRUE
         IN  list[i][1] * DepthIn(tree, list[i][2]) + ExpectedWeightOver(list, tree, S \ {i})

\* the expected witness weight of a constructed tree: sum of frequency * depth
ExpectedWeight(list, tree) == ExpectedWeightOver(list, tree, DOMAIN list)

RECURSIVE LeastExpectedWeight(_, _)
\* the least sum of frequency * depth over all binary trees with the leaves S: a tree is
\* a split of S into the leaves below its two children, every leaf one level deeper
LeastExpectedWeight(list, S) ==
    IF Cardinality(S) <= 1 THEN 0
    ELSE LET costs == {LeastExpectedWeight(list, A) + LeastExpectedWeight(list, S \ A) :
                          A \in (SUBSET S) \ {{}, S}}
         IN  SumWeights(list, S) + (CHOOSE m \in costs : \A k \in costs : m <= k)

\* C25: for every list of positive leaf weights the tree the Huffman constructor builds has
\* a sum of weight * depth that is at most that of every binary tree over the same leaves.
C25_HuffmanMinimisesExpectedWeight ==
    /\ hstep \in {"Built", "Rebuilt"} =>
         ExpectedWeight(tuple_list, taptree)
             <= LeastExpectedWeight(tuple_list, DOMAIN tuple_list)
    /\ hstep = "Rebuilt" =>
         ExpectedWeight(tuple_list, taptree2)
             <= LeastExpectedWeight(tuple_list, DOMAIN tuple_list)

\* C25 witness: a tree over four leaves of unequal weights is built with a leaf three
\* levels deep, at the least expected weight
C25_Witness ==
    /\ hstep = "Built"
    /\ Len(tuple_list) = 4
    /\ \E i \in DOMAIN tuple_list : DepthIn(taptree, i) = 3
    /\ ExpectedWeight(tuple_list, taptree) = LeastExpectedWeight(tuple_list, DOMAIN tuple_list)

RECURSIVE HuffmanRoot(_)
\* the root the loop of the constructor ends with: merge until one entry is left
HuffmanRoot(q) == IF Len(q) <= 1 THEN q[1][2] ELSE HuffmanRoot(HuffmanMerge(q))

\* the control blocks of the tree the constructor builds with its tagged-hash tie-break
HashTieBreakTree(list) ==
    LET root == HuffmanRoot(SeededQueue(list))
    IN  [control_map |-> [sc \in DOMAIN root.path |-> ControlBlock(root.path[sc])]]

\* C26: whichever of several queue entries of the same weight a tie-break selects, the
\* expected witness weight is the same: a tree built under any tie-break order has the sum
\* of weight * depth of the tree built with the tagged-hash tie-break, and so have any two
\* trees built from the same pairs.
C26_TieBreakKeepsExpectedWeight ==
    /\ hstep \in {"Built", "Rebuilt"} =>
         ExpectedWeight(tuple_list, taptree)
             = ExpectedWeight(tuple_list, HashTieBreakTree(tuple_list))
    /\ hstep = "Rebuilt" =>
         ExpectedWeight(tuple_list, taptree2) = ExpectedWeight(tuple_list, taptree)

\* C26 witness: two trees were built from four leaves with tied weights, the ties broken
\* differently: some leaf lies at different depths, and the expected weights are equal
C26_Witness ==
    /\ hstep = "Rebuilt"
    /\ Len(tuple_list) = 4
    /\ \E i \in DOMAIN tuple_list : DepthIn(taptree, i) # DepthIn(taptree2, i)
    /\ \E i \in DOMAIN tuple_list : DepthIn(taptree, i) # DepthIn(HashTieBreakTree(tuple_list), i)
    /\ ExpectedWeight(tuple_list, taptree2) = ExpectedWeight(tuple_list, taptree)

\* the (frequency, tapleaf) pairs of a list with every frequency multiplied by k
ScaledList(list, k) == [i \in DOMAIN list |-> <<k * list[i][1], list[i][2]>>]

\* C27: only the ratios of the leaf weights matter: with every weight multiplied by the
\* same positive integer the Huffman constructor builds the same tree, with the same depth
\* for every leaf and the same root hash.
C27_ScaledWeightsSameTree ==
    hstep \in {"Built", "Rebuilt"} =>
        \A k \in 2..MaxScale :
            LET root == HuffmanRoot(SeededQueue(ScaledList(tuple_list, k)))
            IN  /\ root.hash = RootOf(taptree)
                /\ DOMAIN root.path = DOMAIN taptree.control_map
                /\ \A sc \in DOMAIN root.path : Len(root.path[sc]) = DepthIn(taptree, sc)

\* C27 witness: a tree over four leaves of unequal weights is built, not all leaves at
\* one depth, and the weights doubled give the same root hash
C27_Witness ==
    /\ hstep = "Built"
    /\ Len(tuple_list) = 4
    /\ \E i, j \in DOMAIN tuple_list :
         /\ tuple_list[i][1] # tuple_list[j][1]
         /\ DepthIn(taptree, i) # DepthIn(taptree, j)
    /\ HuffmanRoot(SeededQueue(ScaledList(tuple_list, 2))).hash = RootOf(taptree)

(***************************************************************************)
(* Properties of the loop of the constructor                               *)
(***************************************************************************)
\* the list the running construction was given
ListUnderConstruction == IF build = 1 THEN tuple_list ELSE tuple_list2

\* the loop accounts for every leaf: after m merges n - m entries are left, their weights
\* add up to the weights of the list, and every leaf lies under exactly one entry; the
\* tree is constructed after n - 1 merges from the one entry left, whose weight is the
\* sum of all leaf weights, with a control block for every leaf
LoopAccountsForLeaves ==
    hstep \in {"Queued", "Built", "Rebuilt"} =>
        LET list == ListUnderConstruction
            n    == Len(list)
        IN  /\ Len(queue) >= 1
            /\ merges + Len(queue) = n
            /\ SumScalars([i \in DOMAIN queue |-> queue[i][1]]) = SumWeights(list, DOMAIN list)
            /\ \A i \in DOMAIN list :
                 Cardinality({e \in DOMAIN queue : list[i][2] \in DOMAIN queue[e][2].path}) = 1
            /\ hstep \in {"Built", "Rebuilt"} =>
                 /\ merges = n - 1
                 /\ Len(queue) = 1
                 /\ queue[1][1] = SumWeights(list, DOMAIN list)
                 /\ DOMAIN (IF build = 1 THEN taptree ELSE taptree2).control_map
                        = {list[i][2] : i \in DOMAIN list}

\* C28: for any list of n >= 1 weighted leaves the Huffman loop terminates after exactly
\* n - 1 merges with a single queue entry left; that root's weight is the sum of all leaf
\* weights and every input leaf occurs under it exactly once, with one control block.
C28_LoopEndsAfterAllMerges ==
    /\ []LoopAccountsForLeaves
    /\ (hstep = "Queued") ~> (Len(queue) = 1 /\ merges = Len(ListUnderConstruction) - 1)

\* C28 witness: the loop has merged four leaves in three rounds into one entry, and the
\* tree is constructed from it
C28_Witness ==
    /\ hstep = "Built"
    /\ Len(tuple_list) = 4
    /\ merges = 3
    /\ Len(queue) = 1
    /\ queue[1][1] = SumWeights(tuple_list, DOMAIN tuple_list)
    /\ DOMAIN taptree.control_map = 1..4

(***************************************************************************)
(* Properties of bound keys                                                *)
(***************************************************************************)
\* C29: an operation of a later step never changes a key bound in an earlier step: after
\* the key-path negation of 3.1.4, output_pubkey is still the key musig_ABC tweaked with
\* the taptweak (3.1.3), and main_privkeyA_c, B_c, C_c are still the challenge-scaled keys
\* of 3.1.2, which add up to the private key of musig_ABC.
C29_KeyPathNegationLeavesKeys ==
    (flow = "3.1"
        /\ pc \in {"NoncesExchanged", "PartialSigsCollected", "AggregatedSignature"}) =>
        /\ agg_pubkey_tweaked = tweak_add(agg_pubkey, tweak)
        /\ get_pubkey(SumScalars(privkey_c) % SECP256K1_ORDER) = agg_pubkey

(***************************************************************************)
(* Properties of the scalar operations                                     *)
(***************************************************************************)
\* the key k is valid and its secret is x
KeyHasSecret(k, x) == k.valid /\ k.secret = x

\* the key k holds the scalar x: with x in [1, n) its secret is x, and with x = 0 it is a key
\* without a secret
KeyOfScalar(k, x) == IF x # 0 THEN KeyHasSecret(k, x) ELSE ~k.valid

====
